---- MODULE Spec2Model ----
(***************************************************************************)
(* A model of github.com/tprasadtp/go-githubapp: the Transport (options,   *)
(* construction, JWT and installation-token handling, RoundTrip).          *)
(*                                                                         *)
(* Conventions.                                                            *)
(*  - A Go string is a sequence of atoms (TLA+ strings); names that the    *)
(*    regular expressions inspect are sequences of single characters.      *)
(*    The empty Go string is <<>>.                                         *)
(*  - A time.Time is an integer number of ticks; TicksPerSecond ticks make *)
(*    one second, so that Truncate(time.Second) is not the identity.       *)
(*  - http.Header maps live in a heap (a sequence of maps addressed by     *)
(*    index) so that sharing a map between two requests is expressible.    *)
(***************************************************************************)
EXTENDS Integers, Sequences, FiniteSets, TLC

\* ---------------------------------------------------------------- bounds
TicksPerSecond == 2
MaxOpts == 2
MaxDepth == 3
MaxCalls == 2
MaxApplied == 3

\* ------------------------------------------------------------- strings
Upper == {"A", "B"}
LowerLetters == {"a", "b", "r"}
Digits == {"0", "9"}

ToLowerCh(c) ==
  CASE c = "A" -> "a" [] c = "B" -> "b" [] c = "E" -> "e" [] c = "G" -> "g"
    [] c = "O" -> "o" [] c = "P" -> "p" [] c = "S" -> "s" [] c = "T" -> "t"
    [] OTHER -> c

ToLower(s) == [i \in 1..Len(s) |-> ToLowerCh(s[i])]

\* strings.EqualFold restricted to the modelled alphabet.
EqualFold(a, b) ==
  /\ Len(a) = Len(b)
  /\ \A i \in 1..Len(a) : ToLowerCh(a[i]) = ToLowerCh(b[i])

\* strings.TrimSpace(s) == "": every character is white space.
IsBlank(s) == \A i \in 1..Len(s) : s[i] = " "

\* Index of the first occurrence of atom c in s, 0 when absent.
IndexOf(s, c) ==
  IF \E i \in 1..Len(s) : s[i] = c
  THEN CHOOSE i \in 1..Len(s) : s[i] = c /\ \A j \in 1..(i-1) : s[j] # c
  ELSE 0

\* strings.Cut(s, sep) for a one-atom separator.
Cut(s, sep) ==
  LET i == IndexOf(s, sep) IN
  IF i = 0 THEN [before |-> s, after |-> <<>>, found |-> FALSE]
  ELSE [before |-> SubSeq(s, 1, i-1), after |-> SubSeq(s, i+1, Len(s)), found |-> TRUE]

\* strings.ReplaceAll(s, old, new) for one-atom old and new.
ReplaceAll(s, old, new) == [i \in 1..Len(s) |-> IF s[i] = old THEN new ELSE s[i]]

\* slices.Sort followed by slices.Compact: the ascending duplicate-free
\* sequence of the elements of a sequence of strings.  The order on
\* strings is lexicographic over atoms ordered by AtomRank.
AtomRank(c) ==
  CASE c = "-" -> 1 [] c = "." -> 2 [] c = "0" -> 3 [] c = "9" -> 4
    [] c = "?" -> 5 [] c = "a" -> 6 [] c = "b" -> 7 [] c = "r" -> 8
    [] OTHER -> 9

RECURSIVE StrLess(_, _)
StrLess(a, b) ==
  IF Len(a) = 0 THEN Len(b) > 0
  ELSE IF Len(b) = 0 THEN FALSE
  ELSE IF a[1] = b[1] THEN StrLess(Tail(a), Tail(b))
  ELSE AtomRank(a[1]) < AtomRank(b[1])

RECURSIVE SortSet(_)
SortSet(S) ==
  IF S = {} THEN <<>>
  ELSE LET m == CHOOSE x \in S : \A y \in S \ {x} : StrLess(x, y)
       IN <<m>> \o SortSet(S \ {m})

\* A SortCompact that leaves the list as it is.
SortCompactKeep(q) == q

\* slices.Sort followed by slices.Compact: the distinct elements, ascending.
SortCompact(q) == SortSet({q[i] : i \in 1..Len(q)})

\* -------------------------------------------------------------- regexps
UserNameClass == LowerLetters \cup Digits
RepoTailClass == LowerLetters \cup Digits \cup {"-", "."}

\* userNameRegExp = ^([a-z0-9]([a-z0-9-]+)?)$
userNameRegExp(s) ==
  /\ Len(s) >= 1
  /\ s[1] \in UserNameClass
  /\ \A i \in 2..Len(s) : s[i] \in UserNameClass \cup {"-"}

\* repoNameRegExp = ^(((.)[a-z-0-9-.]+)|([a-z0-9-]([a-z0-9-.]+)?))$
repoNameRegExp(s) ==
  \/ /\ Len(s) >= 2
     /\ \A i \in 2..Len(s) : s[i] \in RepoTailClass
  \/ /\ Len(s) >= 1
     /\ s[1] \in UserNameClass \cup {"-"}
     /\ \A i \in 2..Len(s) : s[i] \in RepoTailClass

Levels == {"read", "write", "admin"}

\* permissionRegEx = ^[a-z]([a-z_]+[a-z])?[:|=](read|write|admin)$
\* A permission spec is the characters of the scope, one separator atom and
\* one level atom.
permissionRegEx(s) ==
  /\ Len(s) >= 3
  /\ s[Len(s)] \in Levels
  /\ s[Len(s) - 1] \in {":", "|", "="}
  /\ LET n == Len(s) - 2 IN
     /\ s[1] \in LowerLetters
     /\ \/ n = 1
        \/ /\ n >= 3
           /\ s[n] \in LowerLetters
           /\ \A i \in 2..(n-1) : s[i] \in LowerLetters \cup {"_"}

\* ----------------------------------------------------------------- time
Second == TicksPerSecond
Minute == 60 * Second

\* time.Time{} : earlier than every instant the clock takes.
ZeroTime == -1

\* Time.Truncate(time.Second)
Truncate(t) == t - (t % Second)

\* Time.Unix()
Unix(t) == t \div Second

\* The instants the clock visits.
ClockSeconds == {30, 89, 90}
Instants == {s * Second + f : s \in ClockSeconds, f \in 0..(TicksPerSecond - 1)}
StartInstant == 30 * Second


\* ------------------------------------------------------------------ URLs
NilURL == [Scheme |-> <<"nil">>, Host |-> <<>>, Path |-> <<>>, RawQuery |-> <<>>, Fragment |-> <<>>]

\* url.Parse on strings of the form scheme "://" host ["/" path] ["?" query]
\* ["#" fragment]; a "%" atom stands for an invalid escape.
urlParse(e) ==
  LET f == Cut(e, "#")
      q == Cut(f.before, "?")
      s == Cut(q.before, "://")
      rest == IF s.found THEN s.after ELSE <<>>
      i == IndexOf(rest, "/")
  IN [err |-> \E k \in 1..Len(e) : e[k] = "%",
      url |-> [Scheme |-> IF s.found THEN s.before ELSE <<>>,
               Host |-> IF i = 0 THEN rest ELSE SubSeq(rest, 1, i-1),
               Path |-> IF s.found
                        THEN (IF i = 0 THEN <<>> ELSE SubSeq(rest, i, Len(rest)))
                        ELSE q.before,
               RawQuery |-> q.after,
               Fragment |-> f.after]]

\* api.DefaultEndpoint = "https://api.github.com/"
DefaultEndpoint == <<"https", "://", "a", "b", "/">>

\* api.UAHeaderValue
UAHeaderValue == <<"github.com/tprasadtp/go-githubapp/v0">>

\* ------------------------------------------------------------- errors
\* An error is the sequence of its joined messages; nil is <<>>.
NilErr == <<>>
ErrorsJoin(a, b) == a \o b
Errorf(msg) == <<msg>>

\* ---------------------------------------------------------- Transport
NoScopes == [x \in {} |-> "read"]

\* &Transport{appID: appid}
NewTransportValue(appid) ==
  [appID |-> appid, appSlug |-> <<>>, installID |-> 0, owner |-> <<>>,
   repos |-> <<>>, ua |-> <<>>, next |-> "nil", baseURL |-> NilURL,
   minter |-> "nil", botUsername |-> <<>>, botEmail |-> <<>>,
   scopes |-> NoScopes]

\* ------------------------------------------------------------- options
\* An Option value: k names the constructor, n its numeric argument, ss its
\* string arguments, subs the members of an Options(...) composite.
NilOption == [k |-> "nil", n |-> 0, ss |-> <<>>, subs |-> <<>>]
Leaf(k, n, ss) == [k |-> k, n |-> n, ss |-> ss, subs |-> <<>>]

WithEndpoint(endpoint) ==
  IF endpoint = <<>> THEN NilOption ELSE Leaf("WithEndpoint", 0, <<endpoint>>)

WithRoundTripper(next) ==
  IF next = "nil" THEN NilOption ELSE Leaf("WithRoundTripper", 0, <<<<next>>>>)

WithUserAgent(ua) ==
  IF IsBlank(ua) THEN NilOption ELSE Leaf("WithUserAgent", 0, <<ua>>)

WithRepositories(repos) ==
  IF Len(repos) = 0 THEN NilOption ELSE Leaf("WithRepositories", 0, repos)

WithOwner(username) == Leaf("WithOwner", 0, <<username>>)

WithInstallationID(id) == Leaf("WithInstallationID", id, <<>>)

WithPermissions(permissions) ==
  IF Len(permissions) = 0 THEN NilOption ELSE Leaf("WithPermissions", 0, permissions)

Options(options) ==
  IF \A i \in 1..Len(options) : options[i] = NilOption
  THEN NilOption
  ELSE [k |-> "Options", n |-> 0, ss |-> <<>>, subs |-> options]

\* The closure of WithEndpoint.
applyEndpoint(t, endpoint) ==
  LET p == urlParse(endpoint) IN
  IF p.err THEN [t |-> t, err |-> Errorf("invalid endpoint url")]
  ELSE IF p.url.Scheme \notin {<<"http">>, <<"https">>}
  THEN [t |-> t, err |-> Errorf("invalid url scheme")]
  ELSE IF p.url.Fragment # <<>> \/ p.url.RawQuery # <<>>
  THEN [t |-> t, err |-> Errorf("endpoint cannot have fragments")]
  ELSE [t |-> [t EXCEPT !.baseURL = p.url], err |-> NilErr]

\* The loop of the closure of WithRepositories, from item i on.  st holds
\* the loop's variables: refOwner, invalid, and t.repos as appended to so far.
RECURSIVE reposLoop(_, _, _)
reposLoop(repos, i, st) ==
  IF i > Len(repos) THEN st
  ELSE
    LET item == ToLower(repos[i])
        c == Cut(item, "/")
    IN
    IF c.found /\ ~userNameRegExp(c.before)
    THEN reposLoop(repos, i + 1, [st EXCEPT !.invalid = Append(@, item)])
    ELSE
      LET refOwner == IF c.found /\ st.refOwner = <<>> THEN c.before ELSE st.refOwner
          name == IF c.found THEN c.after ELSE item
      IN
      IF c.found /\ c.before # refOwner
      THEN [st EXCEPT !.refOwner = refOwner, !.multi = TRUE]
      ELSE IF ~repoNameRegExp(name)
      THEN reposLoop(repos, i + 1,
                     [st EXCEPT !.refOwner = refOwner, !.invalid = Append(@, name)])
      ELSE reposLoop(repos, i + 1,
                     [st EXCEPT !.refOwner = refOwner, !.repos = Append(@, name)])

\* The closure of WithRepositories.
applyRepositories(t, repos) ==
  LET st == reposLoop(repos, 1,
                      [refOwner |-> t.owner, invalid |-> <<>>,
                       repos |-> t.repos, multi |-> FALSE])
  IN
  IF st.multi
  THEN [t |-> [t EXCEPT !.repos = st.repos],
        err |-> Errorf("repositories from multiple owners specified")]
  ELSE IF Len(st.invalid) > 0
  THEN [t |-> [t EXCEPT !.repos = st.repos],
        err |-> Errorf("invalid repositories specified")]
  ELSE [t |-> [t EXCEPT !.repos = SortCompact(st.repos),
                        !.owner = IF t.owner = <<>> /\ st.refOwner # <<>>
                                  THEN st.refOwner ELSE t.owner],
        err |-> NilErr]

\* The closure of WithOwner.
applyOwner(t, name) ==
  LET username == ToLower(name) IN
  IF ~userNameRegExp(username)
  THEN [t |-> t, err |-> Errorf("invalid username")]
  ELSE IF t.owner # <<>> /\ t.owner # username
  THEN [t |-> t, err |-> Errorf("owner is already configured")]
  ELSE [t |-> [t EXCEPT !.owner = username], err |-> NilErr]

\* A closure of WithInstallationID that overwrites an id that is set.
applyInstallationIDOverwrite(t, id) ==
  IF id = 0
  THEN [t |-> t, err |-> Errorf("installation id cannot be zero")]
  ELSE [t |-> [t EXCEPT !.installID = id], err |-> NilErr]

\* The closure of WithInstallationID.
applyInstallationID(t, id) ==
  IF id = 0
  THEN [t |-> t, err |-> Errorf("installation id cannot be zero")]
  ELSE IF t.installID # 0 /\ t.installID # id
  THEN [t |-> t, err |-> Errorf("installation id is already configured")]
  ELSE [t |-> [t EXCEPT !.installID = id], err |-> NilErr]

\* The loop of the closure of WithPermissions: the map m built from the
\* items that match, in order (a later item overwrites an earlier one).
RECURSIVE permsLoop(_, _, _)
permsLoop(permissions, i, m) ==
  IF i > Len(permissions) THEN m
  ELSE
    LET item == ToLower(permissions[i]) IN
    IF permissionRegEx(item)
    THEN LET c == Cut(ReplaceAll(item, "=", ":"), ":")
             level == IF c.after = <<>> THEN "" ELSE c.after[1]
         IN permsLoop(permissions, i + 1,
                      [x \in (DOMAIN m) \cup {c.before} |->
                         IF x = c.before THEN level ELSE m[x]])
    ELSE permsLoop(permissions, i + 1, m)

\* The closure of WithPermissions.
applyPermissions(t, permissions) ==
  IF \E i \in 1..Len(permissions) : ~permissionRegEx(ToLower(permissions[i]))
  THEN [t |-> t, err |-> Errorf("invalid permissions")]
  ELSE [t |-> [t EXCEPT !.scopes = permsLoop(permissions, 1, NoScopes)], err |-> NilErr]

\* funcOption.apply, with the closure of Options(...) for a composite:
\* every non-nil member is applied in order and err is overwritten by
\* errors.Join(member's error) each time.
RECURSIVE apply(_, _)
RECURSIVE applyOptions(_, _, _, _)
applyOptions(subs, i, t, err) ==
  IF i > Len(subs) THEN [t |-> t, err |-> err]
  ELSE IF subs[i] = NilOption THEN applyOptions(subs, i + 1, t, err)
  ELSE LET r == apply(subs[i], t) IN applyOptions(subs, i + 1, r.t, r.err)

apply(opt, t) ==
  CASE opt.k = "WithEndpoint" -> applyEndpoint(t, opt.ss[1])
    [] opt.k = "WithRoundTripper" -> [t |-> [t EXCEPT !.next = opt.ss[1][1]], err |-> NilErr]
    [] opt.k = "WithUserAgent" -> [t |-> [t EXCEPT !.ua = opt.ss[1]], err |-> NilErr]
    [] opt.k = "WithRepositories" -> applyRepositories(t, opt.ss)
    [] opt.k = "WithOwner" -> applyOwner(t, opt.ss[1])
    [] opt.k = "WithInstallationID" -> applyInstallationID(t, opt.n)
    [] opt.k = "WithPermissions" -> applyPermissions(t, opt.ss)
    [] opt.k = "Options" -> applyOptions(opt.subs, 1, t, NilErr)
    [] OTHER -> [t |-> t, err |-> NilErr]


\* ------------------------------------------------------------------ JWT
\* JWT{}
ZeroJWT == [Token |-> <<>>, AppID |-> 0, AppName |-> <<>>, Exp |-> ZeroTime, IssuedAt |-> ZeroTime]

\* A JWT.IsValid without the minute of margin before the expiry.
JWTIsValidNoMargin(j, now) == j.Token # <<>> /\ j.IssuedAt < now /\ j.Exp > now

\* JWT.IsValid at time.Now() = now.
JWTIsValid(j, now) == j.Token # <<>> /\ j.IssuedAt < now /\ j.Exp > now + Minute

\* json.Marshal(&jwtHeader{Alg: "RS256", Type: "JWT"}): the members of the
\* object, name then value, in the order of the struct's fields and under
\* the names of their json tags.
jwtHeader == <<"type", "JWT", "alg", "RS256">>

\* json.Marshal(&jwtPayload{...}): iss is the decimal string of the app id,
\* iat and exp are Unix seconds.
jwtPayload(iss, iat, exp) ==
  <<"iss", ToString(iss), "iat", ToString(Unix(iat)), "exp", ToString(Unix(exp))>>

\* A MintJWT that does not truncate the clock reading.
MintJWTNoTruncate(iss, now, sigOK) ==
  LET iat == now - 30 * Second
      exp == now + 2 * Minute
  IN IF ~sigOK
     THEN [jwt |-> ZeroJWT, err |-> Errorf("githubapp(jwt): failed to sign JWT")]
     ELSE [jwt |-> [Token |-> jwtHeader \o <<".">> \o jwtPayload(iss, iat, exp)
                                \o <<".", "sig">>,
                    AppID |-> iss, AppName |-> <<>>, Exp |-> exp, IssuedAt |-> iat],
           err |-> NilErr]

\* A MintJWT that returns a JWT whatever the signer returns.
MintJWTUnsigned(iss, now, sigOK) ==
  LET n0 == Truncate(now)
      iat == n0 - 30 * Second
      exp == n0 + 2 * Minute
  IN [jwt |-> [Token |-> jwtHeader \o <<".">> \o jwtPayload(iss, iat, exp)
                             \o <<".", "sig">>,
               AppID |-> iss, AppName |-> <<>>, Exp |-> exp, IssuedAt |-> iat],
      err |-> NilErr]

\* jwtRS256.MintJWT.  The compact serialization is the sequence of its
\* parts, each part standing for its unpadded base64url text (an alphabet
\* without '.'); the RS256 signature is a function of the signing string.
\* sigOK tells whether the signer's Sign returns a signature.
MintJWT(iss, now, sigOK) ==
  LET n0 == Truncate(now)
      iat == n0 - 30 * Second
      exp == n0 + 2 * Minute
  IN IF ~sigOK
     THEN [jwt |-> ZeroJWT, err |-> Errorf("githubapp(jwt): failed to sign JWT")]
     ELSE [jwt |-> [Token |-> jwtHeader \o <<".">> \o jwtPayload(iss, iat, exp)
                                \o <<".", "sig">>,
                    AppID |-> iss, AppName |-> <<>>, Exp |-> exp, IssuedAt |-> iat],
           err |-> NilErr]

\* ------------------------------------------------------ InstallationToken
\* InstallationToken{}
ZeroToken ==
  [Token |-> <<>>, AppID |-> 0, AppName |-> <<>>, InstallationID |-> 0,
   Server |-> NilURL, UserAgent |-> <<>>, Exp |-> ZeroTime, Owner |-> <<>>,
   Repositories |-> <<>>, Permissions |-> NoScopes, BotUsername |-> <<>>,
   BotCommitterEmail |-> <<>>]

\* An InstallationToken.IsValid that takes a zero expiry for expired.
TokenIsValidNoZero(tok, now) == tok.Token # <<>> /\ tok.Exp > now + Minute

\* InstallationToken.IsValid at time.Now() = now.
TokenIsValid(tok, now) ==
  tok.Token # <<>> /\ (tok.Exp > now + Minute \/ tok.Exp = ZeroTime)

\* -------------------------------------------------------------- headers
VersionHeader == "X-GitHub-Api-Version"
VersionHeaderValue == <<"2022-11-28">>
AcceptHeader == "Accept"
AcceptHeaderValue == <<"application/vnd.github.v3+json">>
UAHeader == "User-Agent"
AuthzHeader == "Authorization"

\* api.AuthzHeaderValue
AuthzHeaderValue(token) == IF token = <<>> THEN <<>> ELSE <<"Bearer ">> \o token

\* http.Header: a function from canonical keys to sequences of values.
NoHeader == [x \in {} |-> <<>>]
HeaderGet(h, k) == IF k \in DOMAIN h /\ Len(h[k]) > 0 THEN h[k][1] ELSE <<>>
HeaderSet(h, k, v) == [x \in (DOMAIN h) \cup {k} |-> IF x = k THEN <<v>> ELSE h[x]]

\* ---------------------------------------------------------------- Revoke
\* The DELETE request of revoke: u.JoinPath(u.Path, "installation", "token")
\* and the four headers.
revokeRequest(tok, u) ==
  [Method |-> "DELETE", Host |-> u.Host, Path |-> u.Path \o <<"installation", "token">>,
   header |-> HeaderSet(HeaderSet(HeaderSet(HeaderSet(NoHeader,
                VersionHeader, VersionHeaderValue),
                AuthzHeader, AuthzHeaderValue(tok.Token)),
                AcceptHeader, AcceptHeaderValue),
                UAHeader, IF tok.UserAgent = <<>> THEN UAHeaderValue ELSE tok.UserAgent)]

\* What revoke does once the token is valid and its server URL is good:
\* sent is the request issued, a the answer, n the time.Now() at the end.
revokeSend(tok, u, a, n) ==
  IF a.neterr
  THEN [token |-> tok, sent |-> <<revokeRequest(tok, u)>>,
        err |-> <<"githubapp: failed to revoke token", "network error">>]
  ELSE IF a.status # 204
  THEN [token |-> tok, sent |-> <<revokeRequest(tok, u)>>,
        err |-> <<"githubapp: failed to revoke token, expected(204) but got",
                  ToString(a.status)>>]
  ELSE [token |-> [tok EXCEPT !.Exp = n], sent |-> <<revokeRequest(tok, u)>>, err |-> NilErr]

\* A revoke that leaves the expiry as it is.
revokeKeepExp(tok, n1, a, n2) ==
  IF ~TokenIsValid(tok, n1)
  THEN [token |-> tok, sent |-> <<>>,
        err |-> Errorf("githubapp: cannot revoke already invalid token")]
  ELSE [token |-> tok, sent |-> revokeSend(tok, urlParse(DefaultEndpoint).url, a, n2).sent,
        err |-> revokeSend(tok, urlParse(DefaultEndpoint).url, a, n2).err]

\* A revoke that takes every answer of the server for a success.
revokeAnyStatus(tok, n1, a, n2) ==
  IF ~TokenIsValid(tok, n1)
  THEN [token |-> tok, sent |-> <<>>,
        err |-> Errorf("githubapp: cannot revoke already invalid token")]
  ELSE IF a.neterr THEN revokeSend(tok, urlParse(DefaultEndpoint).url, a, n2)
  ELSE [token |-> [tok EXCEPT !.Exp = n2],
        sent |-> <<revokeRequest(tok, urlParse(DefaultEndpoint).url)>>, err |-> NilErr]

\* InstallationToken.revoke: the token after the call, the requests issued,
\* nil or the error.  n1 is time.Now() in IsValid, a the answer to the
\* request, n2 time.Now() after the answer.
revoke(tok, n1, a, n2) ==
  IF ~TokenIsValid(tok, n1)
  THEN [token |-> tok, sent |-> <<>>,
        err |-> Errorf("githubapp: cannot revoke already invalid token")]
  ELSE
    LET server == IF tok.Server = <<>> THEN DefaultEndpoint ELSE tok.Server
        checkURL(p) ==
          IF p.err
          THEN [token |-> tok, sent |-> <<>>,
                err |-> Errorf("githubapp: failed to revoke token - invalid server url")]
          ELSE IF p.url.Scheme \notin {<<"http">>, <<"https">>}
          THEN [token |-> tok, sent |-> <<>>, err |-> Errorf("invalid url scheme")]
          ELSE IF p.url.Fragment # <<>> \/ p.url.RawQuery # <<>>
          THEN [token |-> tok, sent |-> <<>>,
                err |-> Errorf("githubapp: failed to revoke token - server url cannot have fragments or queries")]
          ELSE revokeSend(tok, p.url, a, n2)
    IN checkURL(urlParse(server))

\* ------------------------------------------------------------- requests
\* *http.Request: nil tells a nil pointer, ctxJWT whether the request context
\* carries ctxJWTKey, Header is the address of its header map in the heap.
Request(ctxJWT, method, host, path, hdr) ==
  [nil |-> FALSE, ctxJWT |-> ctxJWT, Method |-> method, Host |-> host,
   Path |-> path, Header |-> hdr]

NilRequest == [nil |-> TRUE, ctxJWT |-> FALSE, Method |-> "", Host |-> <<>>,
               Path |-> <<>>, Header |-> 0]

\* A ctxHasJWTKey that finds the key in every context.
ctxHasJWTKeyAlways(req) == TRUE

\* A ctxHasJWTKey that finds the key in no context.
ctxHasJWTKeyNever(req) == FALSE

\* ctxHasJWTKey(req.Context())
ctxHasJWTKey(req) == req.ctxJWT

\* A response of the inner round tripper (the server, or a network error).
Resp(neterr, status, kind, id, login, perms, susp, tok, exp) ==
  [neterr |-> neterr, status |-> status, kind |-> kind, id |-> id, login |-> login,
   perms |-> perms, susp |-> susp, tok |-> tok, exp |-> exp]

NoResp == Resp(FALSE, 0, "none", 0, <<>>, NoScopes, "no", <<>>, ZeroTime)

\* The part of the program state and of its environment that a call reads
\* and writes: the heap of header maps, the two atomic slots (<<>> is a nil
\* Load), the clock, what reached the inner round tripper, how often the
\* signer was invoked, and the nesting of RoundTrip.
World(heap0, jwt0, token0, now0) ==
  [heap |-> heap0, jwt |-> jwt0, token |-> token0, now |-> now0,
   sent |-> <<>>, signs |-> 0, depth |-> 0, peak |-> 0]

\* A cloneRequest that copies the struct and shares the header map.
cloneRequestShallow(w, r) == [w |-> w, clone |-> r]

\* cloneRequest: a copy of the struct with a copy of its header map.
cloneRequest(w, r) ==
  [w |-> [w EXCEPT !.heap = Append(@, w.heap[r.Header])],
   clone |-> [r EXCEPT !.Header = Len(w.heap) + 1]]

\* clone.Header.Add(k, v) in the place of Set: the value is appended.
SetHeaderAppend(w, r, k, v) ==
  [w EXCEPT !.heap[r.Header] =
     [x \in (DOMAIN @) \cup {k} |-> IF x = k /\ k \in DOMAIN @ THEN Append(@[x], v)
                                     ELSE IF x = k THEN <<v>> ELSE @[x]]]

\* clone.Header.Set(k, v)
SetHeader(w, r, k, v) == [w EXCEPT !.heap[r.Header] = HeaderSet(@, k, v)]

\* Transport.JWT
TransportJWT(w, t, sigOK) ==
  IF w.jwt # <<>> /\ JWTIsValid(w.jwt[1], w.now)
  THEN [w |-> w, jwt |-> w.jwt[1], err |-> NilErr]
  ELSE
    LET m == MintJWT(t.appID, w.now, sigOK)
        w1 == [w EXCEPT !.signs = @ + 1]
    IN IF m.err # NilErr
       THEN [w |-> w1, jwt |-> ZeroJWT,
             err |-> <<"githubapp: failed to mint JWT">> \o m.err]
       ELSE LET bearer == [m.jwt EXCEPT !.AppName = t.appSlug]
            IN [w |-> [w1 EXCEPT !.jwt = <<bearer>>], jwt |-> bearer, err |-> NilErr]

\* t.baseURL.JoinPath("app", "installations", id, "access_tokens")
TokenPath(t) == <<"app", "installations", ToString(t.installID), "access_tokens">>

RECURSIVE RoundTrip(_, _, _, _, _)

\* An InstallationToken that takes every 2xx answer for a token.
statusCreatedOrOK(resp) == resp.status \in {200, 201}

\* InstallationToken: resp.StatusCode == http.StatusCreated
statusCreated(resp) == resp.status = 201

\* InstallationToken: the error for an answer that is not 201.  Both
\* messages end with resp.Status, which begins with the status code.
exchangeStatusError(resp) ==
  IF resp.kind = "message"
  THEN <<"githubapp(token): message", ToString(resp.status)>>
  ELSE <<"githubapp(token): failed to get installation token", ToString(resp.status)>>

\* An InstallationToken that leaves the Token field of its result unset.
exchangeResultNoToken(t, resp) ==
  IF ~statusCreated(resp)
  THEN [token |-> ZeroToken, panic |-> FALSE, err |-> exchangeStatusError(resp)]
  ELSE [token |-> [ZeroToken EXCEPT !.AppID = t.appID, !.Exp = resp.exp],
        panic |-> FALSE, err |-> NilErr]

\* InstallationToken after client.Do has returned the answer resp: the
\* token, or the error, or the panic of the nil dereference of the expiry.
exchangeResult(t, resp) ==
  IF ~statusCreated(resp)
  THEN [token |-> ZeroToken, panic |-> FALSE, err |-> exchangeStatusError(resp)]
  ELSE IF resp.kind = "notjson"
  THEN [token |-> ZeroToken, panic |-> FALSE,
        err |-> Errorf("githubapp(token): failed to unmarshal response")]
  ELSE IF resp.kind = "noexp"
  THEN [token |-> ZeroToken, panic |-> TRUE, err |-> NilErr]
  ELSE [panic |-> FALSE, err |-> NilErr,
        token |-> [Token |-> resp.tok, AppID |-> t.appID, AppName |-> t.appSlug,
                   InstallationID |-> t.installID, Server |-> t.baseURL,
                   UserAgent |-> t.ua, Exp |-> resp.exp, Owner |-> t.owner,
                   Repositories |-> <<>>, Permissions |-> resp.perms,
                   BotUsername |-> t.botUsername,
                   BotCommitterEmail |-> t.botEmail]]

\* Transport.InstallationToken.  in.exch is the answer to the token
\* exchange request, in.sigOK the signer's behaviour.
InstallationToken(w, t, in) ==
  IF t.installID = 0
  THEN [w |-> w, token |-> ZeroToken, panic |-> FALSE,
        err |-> Errorf("githubapp: installation id is not configured")]
  ELSE
    LET w1 == [w EXCEPT !.heap = Append(@, NoHeader)]
        r == Request(TRUE, "POST", t.baseURL.Host, TokenPath(t), Len(w1.heap))
        \* What follows t.RoundTrip(r), whose results are rr and rr.resp.
        result(ww, x) == [w |-> ww, token |-> x.token, panic |-> x.panic, err |-> x.err]
        decode(rr) ==
          IF rr.err # NilErr
          THEN [w |-> rr.w, token |-> ZeroToken, panic |-> FALSE,
                err |-> <<"githubapp(token): failed to get installation token">> \o rr.err]
          ELSE result(rr.w, exchangeResult(t, rr.resp))
    IN decode(RoundTrip(w1, t, r, in, in.exch))

\* Transport.installationAuthzHeaderValue
installationAuthzHeaderValue(w, t, in) ==
  IF w.token # <<>> /\ TokenIsValid(w.token[1], w.now)
  THEN [w |-> w, value |-> <<"Bearer ">> \o w.token[1].Token, panic |-> FALSE, err |-> NilErr]
  ELSE
    LET \* What follows t.InstallationToken(ctx), whose result is r.
        value(r) ==
          IF r.err # NilErr \/ r.panic
          THEN [w |-> r.w, value |-> <<>>, panic |-> r.panic, err |-> r.err]
          ELSE [w |-> r.w, value |-> <<"Bearer ">> \o r.token.Token,
                panic |-> FALSE, err |-> NilErr]
    IN value(InstallationToken(w, t, in))

\* The headers as an earlier RoundTrip set them: the library's Accept and
\* version on every request, when the request has none.
requestHeadersIfAbsent(w, t, req, clone) ==
  LET w1 == IF HeaderGet(w.heap[clone.Header], AcceptHeader) = <<>>
            THEN [w EXCEPT !.heap[clone.Header] = HeaderSet(@, AcceptHeader, AcceptHeaderValue)]
            ELSE w
  IN IF HeaderGet(w1.heap[clone.Header], VersionHeader) = <<>>
     THEN [w1 EXCEPT !.heap[clone.Header] = HeaderSet(@, VersionHeader, VersionHeaderValue)]
     ELSE w1

\* The headers other than Authorization that RoundTrip sets on the clone:
\* those of a renewal request (its context has ctxJWTKey), none otherwise.
requestHeaders(w, t, req, clone) ==
  IF ctxHasJWTKey(req)
  THEN LET w1 == SetHeader(w, clone, AcceptHeader, AcceptHeaderValue)
           w2 == SetHeader(w1, clone, VersionHeader, VersionHeaderValue)
       IN IF HeaderGet(w2.heap[clone.Header], UAHeader) = <<>>
          THEN SetHeader(w2, clone, UAHeader, t.ua)
          ELSE w2
  ELSE w

\* A RoundTrip without host check.
hostMatchesAlways(t, req) == TRUE

\* The host check of RoundTrip.
hostMatches(t, req) == EqualFold(t.baseURL.Host, req.Host)

\* t.next.RoundTrip(clone): the inner round tripper receives the clone and
\* the header map it points to, and answers resp.  orig is the header map
\* of the request RoundTrip was called with, as it is at that moment.
nextRoundTrip(w, req, clone, resp) ==
  [w |-> [w EXCEPT !.sent = Append(@, [req |-> clone, header |-> w.heap[clone.Header],
                                       orig |-> w.heap[req.Header], resp |-> resp])],
   resp |-> resp,
   err |-> IF resp.neterr THEN Errorf("network error") ELSE NilErr,
   panic |-> FALSE]

\* Transport.RoundTrip.  resp is the answer of the inner round tripper to
\* this request.
RoundTrip(w0, t, req, in, resp) ==
  IF w0.depth >= MaxDepth
  THEN [w |-> w0, resp |-> NoResp, err |-> Errorf("nesting"), panic |-> TRUE]
  ELSE IF req.nil
  THEN [w |-> w0, resp |-> NoResp, panic |-> FALSE,
        err |-> Errorf("githubapp(RoundTrip): request is nil")]
  ELSE IF ~hostMatches(t, req)
  THEN [w |-> w0, resp |-> NoResp, panic |-> FALSE,
        err |-> Errorf("githubapp(RoundTrip): Host for round tripper does not match host for request")]
  ELSE
    LET wd == [w0 EXCEPT !.depth = @ + 1,
                         !.peak = IF w0.depth + 1 > @ THEN w0.depth + 1 ELSE @]
        c == cloneRequest(wd, req)
        clone == c.clone
        w1 == requestHeaders(c.w, t, req, clone)
        leave(r) == [r EXCEPT !.w.depth = w0.depth]
        \* What follows t.JWT(ctx), whose result is j.
        withJWT(j) ==
          IF j.err # NilErr
          THEN [w |-> j.w, resp |-> NoResp, err |-> j.err, panic |-> FALSE]
          ELSE nextRoundTrip(
                 SetHeader(j.w, clone, AuthzHeader, AuthzHeaderValue(j.jwt.Token)),
                 req, clone, resp)
        \* What follows t.installationAuthzHeaderValue(ctx), whose result is a.
        withToken(a) ==
          IF a.err # NilErr \/ a.panic
          THEN [w |-> a.w, resp |-> NoResp, err |-> a.err, panic |-> a.panic]
          ELSE nextRoundTrip(SetHeader(a.w, clone, AuthzHeader, a.value), req, clone, resp)
    IN
    IF t.installID = 0 \/ ctxHasJWTKey(req)
    THEN leave(withJWT(TransportJWT(w1, t, in.sigOK)))
    ELSE leave(withToken(installationAuthzHeaderValue(w1, t, in)))


\* A loop body that wants the installation's level equal to the requested one.
scopeCheckExact(scopeName, scopeLevel, permissions) ==
  IF scopeName \notin DOMAIN permissions THEN "missing"
  ELSE IF scopeLevel \notin {"admin", "write", "read"} THEN "unknown"
  ELSE IF permissions[scopeName] = scopeLevel THEN "ok" ELSE "missing"

\* The body of the loop of checkInstallationPermissions for one requested
\* scope: "ok", "missing" when the scope is appended to missing, "unknown"
\* when the loop returns the unknown-level error.
scopeCheck(scopeName, scopeLevel, permissions) ==
  IF scopeName \notin DOMAIN permissions THEN "missing"
  ELSE CASE scopeLevel = "admin" ->
              IF permissions[scopeName] # "admin" THEN "missing" ELSE "ok"
         [] scopeLevel = "write" ->
              IF permissions[scopeName] \in {"write", "admin"} THEN "ok" ELSE "missing"
         [] scopeLevel = "read" ->
              IF permissions[scopeName] \in {"read", "write", "admin"} THEN "ok" ELSE "missing"
         [] OTHER -> "unknown"

\* A reconciliation that is content with one requested scope that is granted.
checkInstallationPermissionsAny(t, permissions) ==
  IF DOMAIN t.scopes = {} THEN NilErr
  ELSE IF \E sc \in DOMAIN t.scopes : scopeCheck(sc, t.scopes[sc], permissions) = "ok"
  THEN NilErr
  ELSE Errorf("missing requested permissions")

\* Transport.checkInstallationPermissions: nil or the error.  The loop
\* returns at the first requested scope of an unknown level that the
\* installation has; every other scope is visited, in any order.
checkInstallationPermissions(t, permissions) ==
  IF DOMAIN t.scopes = {} THEN NilErr
  ELSE IF \E sc \in DOMAIN t.scopes : scopeCheck(sc, t.scopes[sc], permissions) = "unknown"
  THEN Errorf("unknown level")
  ELSE IF \E sc \in DOMAIN t.scopes : scopeCheck(sc, t.scopes[sc], permissions) = "missing"
  THEN Errorf("missing requested permissions")
  ELSE NilErr

\* -------------------------------------------------------------- signers
\* crypto.Signer: nil, or the type and size of its public key.
MinRSABits == 2048
NilSigner == [nil |-> TRUE, key |-> "none", bits |-> 0]
Signer(key, bits) == [nil |-> FALSE, key |-> key, bits |-> bits]

\* A switch on signer.Public() that takes RSA keys from 1024 bits on.
selectMinterWeak(signer) ==
  IF signer.key = "rsa" /\ signer.bits >= 1024 THEN NilErr
  ELSE Errorf("githubapp: unsupported key")

\* The switch on signer.Public() in NewTransport: nil when the key is accepted.
selectMinter(signer) ==
  CASE signer.key = "rsa" ->
         IF signer.bits < MinRSABits THEN Errorf("githubapp: rsa keys size < 2048 bits") ELSE NilErr
    [] signer.key = "ecdsa" -> Errorf("githubapp: ECDSA keys are not supported")
    [] signer.key = "ed25519" -> Errorf("githubapp: ED-25519 keys are not supported")
    [] OTHER -> Errorf("githubapp: unknown key type")

\* ------------------------------------------------------------ the state
VARIABLES
  pc,      \* position of NewTransport: "new", its steps, "ready", "failed", "panic"
  t,       \* the Transport under construction, then the one returned
  now,     \* time.Now()
  jwt,     \* t.jwt: <<>> or <<the JWT stored>>
  token,   \* t.token: <<>> or <<the InstallationToken stored>>
  heap,    \* the header maps allocated by the last call
  ev,      \* the last call: its arguments, its environment, its results
  log,     \* what NewTransport has done so far
  given,   \* the arguments of NewTransport
  calls,   \* the concurrent calls of t.InstallationToken: position and locals of each
  held     \* an InstallationToken that a caller holds, and when Revoke succeeded on it

vars == <<pc, t, now, jwt, token, heap, ev, log, given, calls, held>>

\* The record of a call.  r is the result of the operator that models it.
NoIn == [sigOK |-> TRUE, exch |-> NoResp]

Ev(op, req, before, r, in, retJwt, retTok) ==
  [op |-> op, req |-> req, before |-> before, appid |-> 0, signer |-> NilSigner,
   err |-> r.err, panic |-> r.panic,
   sent |-> r.w.sent, signs |-> r.w.signs, peak |-> r.w.peak,
   preJwt |-> jwt, preToken |-> token, sigOK |-> in.sigOK,
   retJwt |-> retJwt, retTok |-> retTok, args |-> <<>>, ret |-> <<>>]

NoEv ==
  [op |-> "none", req |-> NilRequest, before |-> NoHeader, appid |-> 0,
   signer |-> NilSigner, err |-> NilErr, panic |-> FALSE, sent |-> <<>>, signs |-> 0, peak |-> 0, preJwt |-> <<>>,
   preToken |-> <<>>, sigOK |-> TRUE, retJwt |-> <<>>, retTok |-> <<>>,
   args |-> <<>>, ret |-> <<>>]

\* A call of t.InstallationToken or of t.JWT that has not begun.  Of a call
\* of t.JWT, seen is what its Load returned, at the time.Now() of its
\* IsValid, and order the rank of its Store among the Stores so far.
CallIds == 1..MaxCalls
IdleCall ==
  [pc |-> "idle", jwt |-> ZeroJWT, minted |-> FALSE, resp |-> NoResp,
   token |-> ZeroToken, err |-> NilErr, seen |-> <<>>, at |-> ZeroTime, order |-> 0]

\* Inputs that a call did not read are fixed, so that equal calls give
\* equal records: the signer's behaviour when the signer was not invoked,
\* the answer to a token exchange (the only POST) when none was issued and
\* the answer to the request itself (a GET) when it was not forwarded.
Consumed(r, in, resp) ==
  /\ r.w.signs = 0 => in.sigOK
  /\ (\A i \in 1..Len(r.w.sent) : r.w.sent[i].req.Method # "POST") <=> in.exch = NoResp
  /\ (\A i \in 1..Len(r.w.sent) : r.w.sent[i].req.Method # "GET") <=> resp = NoResp

Init ==
  /\ pc = "new"
  /\ t = NewTransportValue(0)
  /\ now = StartInstant
  /\ jwt = <<>>
  /\ token = <<>>
  /\ heap = <<>>
  /\ ev = NoEv
  /\ log = [sent |-> <<>>, signs |-> 0, err |-> NilErr, ret |-> "none", peak |-> 0]
  /\ given = [appid |-> 0, signer |-> NilSigner, leafErrs |-> <<>>, install |-> FALSE,
              installID |-> 0, owner |-> <<>>, owners |-> {}, applied |-> <<>>]
  /\ calls = [c \in CallIds |-> IdleCall]
  /\ held = [tok |-> ZeroToken, revoked |-> <<>>]


\* ------------------------------------------------- the environment's sets
SlugApp == <<"app">>
OwnerA == <<"a">>
OwnerB == <<"b">>
ScopeA == <<"a">>
ScopesOf(level) == [x \in {ScopeA} |-> level]

\* Answers to GET /app.
AppResponses ==
  { Resp(FALSE, 200, "ok", 0, SlugApp, NoScopes, "no", <<>>, ZeroTime),
    Resp(FALSE, 200, "notjson", 0, <<>>, NoScopes, "no", <<>>, ZeroTime),
    Resp(FALSE, 200, "noslug", 0, <<>>, NoScopes, "no", <<>>, ZeroTime),
    Resp(FALSE, 401, "ok", 0, <<>>, NoScopes, "no", <<>>, ZeroTime),
    Resp(FALSE, 403, "ok", 0, <<>>, NoScopes, "no", <<>>, ZeroTime),
    Resp(FALSE, 404, "ok", 0, <<>>, NoScopes, "no", <<>>, ZeroTime),
    Resp(FALSE, 500, "ok", 0, <<>>, NoScopes, "no", <<>>, ZeroTime),
    Resp(TRUE, 0, "none", 0, <<>>, NoScopes, "no", <<>>, ZeroTime) }

\* Answers to the installation probe.
InstallationResponses ==
  { Resp(FALSE, 200, "ok", id, login, perms, susp, <<>>, ZeroTime) :
      id \in {1, 2}, login \in {OwnerA, OwnerB},
      perms \in {NoScopes, ScopesOf("read"), ScopesOf("admin")},
      susp \in {"no", "past", "future"} }
  \cup
  { Resp(FALSE, 200, "notjson", 0, <<>>, NoScopes, "no", <<>>, ZeroTime),
    Resp(FALSE, 200, "noid", 0, <<>>, NoScopes, "no", <<>>, ZeroTime),
    Resp(FALSE, 404, "ok", 0, <<>>, NoScopes, "no", <<>>, ZeroTime),
    Resp(TRUE, 0, "none", 0, <<>>, NoScopes, "no", <<>>, ZeroTime) }

\* Answers to the token exchange at time n.
ExchResponses(n) ==
  { Resp(FALSE, 201, "ok", 0, <<>>, NoScopes, "no", <<"ghs", "1">>, n + 60 * Minute),
    Resp(FALSE, 201, "ok", 0, <<>>, NoScopes, "no", <<"ghs", "2">>, ZeroTime),
    Resp(FALSE, 201, "ok", 0, <<>>, NoScopes, "no", <<>>, n + 60 * Minute),
    Resp(FALSE, 201, "notjson", 0, <<>>, NoScopes, "no", <<>>, ZeroTime),
    Resp(FALSE, 201, "noexp", 0, <<>>, NoScopes, "no", <<"ghs", "1">>, ZeroTime),
    Resp(FALSE, 200, "ok", 0, <<>>, NoScopes, "no", <<"ghs", "1">>, n + 60 * Minute),
    Resp(FALSE, 403, "ok", 0, <<>>, NoScopes, "no", <<>>, ZeroTime),
    Resp(FALSE, 404, "message", 0, <<>>, NoScopes, "no", <<>>, ZeroTime),
    Resp(FALSE, 422, "ok", 0, <<>>, NoScopes, "no", <<>>, ZeroTime),
    Resp(TRUE, 0, "none", 0, <<>>, NoScopes, "no", <<>>, ZeroTime) }

\* Answers to GET /users/{slug}[bot].
BotResponses ==
  { Resp(FALSE, 200, "ok", 7, <<"app[bot]">>, NoScopes, "no", <<>>, ZeroTime),
    Resp(FALSE, 200, "notjson", 0, <<>>, NoScopes, "no", <<>>, ZeroTime),
    Resp(FALSE, 200, "nologin", 0, <<>>, NoScopes, "no", <<>>, ZeroTime),
    Resp(FALSE, 404, "ok", 0, <<>>, NoScopes, "no", <<>>, ZeroTime),
    Resp(TRUE, 0, "none", 0, <<>>, NoScopes, "no", <<>>, ZeroTime) }

\* Answers to a client's request.
ClientResponses ==
  { Resp(FALSE, 200, "ok", 0, <<>>, NoScopes, "no", <<>>, ZeroTime),
    Resp(TRUE, 0, "none", 0, <<>>, NoScopes, "no", <<>>, ZeroTime) }

Inputs(n) == [sigOK : BOOLEAN, exch : ExchResponses(n) \cup {NoResp}]


\* ---------------------------------------------------- NewTransport inputs
Signers ==
  { NilSigner, Signer("rsa", 1024), Signer("rsa", 2047), Signer("rsa", 2048),
    Signer("ecdsa", 256), Signer("ed25519", 256), Signer("other", 0) }

EndpointCustom == <<"https", "://", "A", "r">>
UACustom == <<"m", "y">>
PermRead == <<"a", ":", "read">>

\* The options of the client scenarios.
SmallPool ==
  { WithInstallationID(1), WithOwner(OwnerA), WithEndpoint(EndpointCustom),
    WithUserAgent(UACustom) }

\* The options of the option scenarios.
RepoLists ==
  { <<>>, << <<"r">> >>, << <<"a", "/", "r">> >>, << <<"r">>, <<"b", "/", "0">> >>,
    << <<"a", "/", "r">>, <<"b", "/", "0">> >>, << <<".">> >> }

PermLists ==
  { <<>>, <<PermRead>>, << <<"a", "=", "admin">> >>, << <<"a", ":", "none">> >>,
    << <<"a", "|", "read">> >> }

LeafPool ==
  { NilOption, WithRoundTripper("custom"), WithRoundTripper("nil"),
    WithUserAgent(UACustom), WithUserAgent(<<" ">>),
    WithOwner(OwnerA), WithOwner(<<"B">>), WithOwner(<<"-">>),
    WithInstallationID(0), WithInstallationID(1), WithInstallationID(2),
    WithEndpoint(<<>>), WithEndpoint(EndpointCustom),
    WithEndpoint(<<"ftp", "://", "a">>), WithEndpoint(<<"https", "://", "a", "?", "q">>),
    WithEndpoint(<<"https", "://", "%">>) }
  \cup { WithRepositories(l) : l \in RepoLists }
  \cup { WithPermissions(l) : l \in PermLists }

CompositeLeaves ==
  { NilOption, WithInstallationID(0), WithInstallationID(1), WithOwner(OwnerA),
    WithUserAgent(UACustom) }

CompositePool ==
  { Options(<<x, y>>) : x, y \in CompositeLeaves }
  \cup { Options(<<Options(<<x>>), y>>) : x, y \in {WithInstallationID(0), WithUserAgent(UACustom)} }

BigPool == LeafPool \cup CompositePool

OptLists(pool) == UNION { [1..n -> pool] : n \in 0..MaxOpts }

\* The loop of NewTransport over opts: err = errors.Join(err, opts[i].apply(t)).
RECURSIVE applyAll(_, _, _, _)
applyAll(opts, i, tr, err) ==
  IF i > Len(opts) THEN [t |-> tr, err |-> err]
  ELSE IF opts[i] = NilOption THEN applyAll(opts, i + 1, tr, err)
  ELSE LET r == apply(opts[i], tr) IN applyAll(opts, i + 1, r.t, ErrorsJoin(err, r.err))

\* What the caller gave, for the properties: the errors returned by the
\* closures of the WithX options in the order of their application, at
\* whatever depth of Options(...) they are, and whether an installation
\* option is among them.
RECURSIVE leafErrors(_, _, _, _)
leafErrors(opts, i, tr, acc) ==
  IF i > Len(opts) THEN acc
  ELSE IF opts[i].k = "Options"
  THEN leafErrors(opts, i + 1, apply(opts[i], tr).t, leafErrors(opts[i].subs, 1, tr, acc))
  ELSE LET r == apply(opts[i], tr) IN leafErrors(opts, i + 1, r.t, acc \o r.err)

RECURSIVE hasInstallOption(_)
hasInstallOption(opts) ==
  \E i \in 1..Len(opts) :
    \/ opts[i].k \in {"WithOwner", "WithInstallationID", "WithRepositories"}
    \/ opts[i].k = "Options" /\ hasInstallOption(opts[i].subs)

\* The owners that the options name: the argument of WithOwner and the
\* part before the '/' of the entries of WithRepositories, in lower case,
\* at whatever depth of Options(...) the option is.
RECURSIVE ownersNamed(_)
ownersNamed(opts) ==
  UNION { IF opts[i].k = "WithOwner" THEN {ToLower(opts[i].ss[1])}
          ELSE IF opts[i].k = "WithRepositories"
          THEN {Cut(ToLower(opts[i].ss[j]), "/").before :
                  j \in {x \in 1..Len(opts[i].ss) : Cut(opts[i].ss[x], "/").found}}
          ELSE IF opts[i].k = "Options" THEN ownersNamed(opts[i].subs)
          ELSE {} : i \in 1..Len(opts) }

\* ------------------------------------------------------------ NewTransport
\* A NewTransport that returns the Transport along with an error.
newTransportReturnAlways(err, pcNext) ==
  IF err # NilErr \/ pcNext = "ready" THEN "transport" ELSE "none"

\* What NewTransport returns beside the error: nil with every error, the
\* Transport at its end, nothing while it runs or when it panics.
newTransportReturn(err, pcNext) ==
  IF err # NilErr THEN "nil" ELSE IF pcNext = "ready" THEN "transport" ELSE "none"

\* NewTransport up to its first request: the checks of its arguments, the
\* options, the defaults and the selection of the minter.
NewTransportBegin(appids, signers, optLists) ==
  /\ pc = "new"
  /\ ev = NoEv
  /\ \E appid \in appids, signer \in signers, opts \in optLists :
       LET argErr == (IF signer.nil THEN Errorf("no signer provided") ELSE NilErr)
                     \o (IF appid = 0 THEN Errorf("app id cannot be zero") ELSE NilErr)
       IN \E a \in {applyAll(opts, 1, NewTransportValue(appid), NilErr)} :
       LET optErr == ErrorsJoin(a.err,
                                IF Len(a.t.repos) > 0 /\ a.t.owner = <<>>
                                THEN Errorf("owner not specified") ELSE NilErr)
           d == [a.t EXCEPT
                   !.next = IF @ = "nil" THEN "default" ELSE @,
                   !.ua = IF @ = <<>> THEN UAHeaderValue ELSE @,
                   !.baseURL = IF @ = NilURL THEN urlParse(DefaultEndpoint).url ELSE @]
           keyErr == selectMinter(signer)
       IN
       /\ given' = [appid |-> appid, signer |-> signer,
                    leafErrs |-> IF argErr = NilErr
                                 THEN leafErrors(opts, 1, NewTransportValue(appid), <<>>)
                                 ELSE <<>>,
                    install |-> hasInstallOption(opts),
                    installID |-> IF argErr = NilErr THEN a.t.installID ELSE 0,
                    owner |-> IF argErr = NilErr THEN a.t.owner ELSE <<>>,
                    owners |-> ownersNamed(opts), applied |-> <<>>]
       /\ IF argErr # NilErr
          THEN /\ pc' = "failed"
               /\ t' = t
               /\ log' = [log EXCEPT !.err = <<"githubapp: invalid options">> \o argErr,
                                    !.ret = newTransportReturn(<<"githubapp: invalid options">> \o argErr, pc')]
          ELSE IF optErr # NilErr
          THEN /\ pc' = "failed"
               /\ t' = a.t
               /\ log' = [log EXCEPT !.err = <<"githubapp: invalid options">> \o optErr,
                                    !.ret = newTransportReturn(<<"githubapp: invalid options">> \o optErr, pc')]
          ELSE IF keyErr # NilErr
          THEN /\ pc' = "failed"
               /\ t' = d
               /\ log' = [log EXCEPT !.err = keyErr,
                                    !.ret = newTransportReturn(keyErr, pc')]
          ELSE /\ pc' = "checkApp"
               /\ t' = [d EXCEPT !.minter = "jwtRS256"]
               /\ log' = log
  /\ UNCHANGED <<now, jwt, token, heap, ev, calls, held>>

\* The part of a construction step that is the same for all: the slots and
\* the heap after the call, the record of the call, the log.
StepDone(op, r, in) ==
  /\ jwt' = r.w.jwt
  /\ token' = r.w.token
  /\ heap' = r.w.heap
  /\ ev' = Ev(op, NilRequest, NoHeader, r, in, <<>>, <<>>)
  /\ UNCHANGED <<now, given, calls, held>>

\* The log keeps of each request that reached the inner round tripper its
\* method, its path, whether its context had ctxJWTKey, its User-Agent, and
\* the id, the login and the status of its answer.
Summary(sent) ==
  [i \in 1..Len(sent) |->
     [Method |-> sent[i].req.Method, Path |-> sent[i].req.Path, ctxJWT |-> sent[i].req.ctxJWT,
      id |-> sent[i].resp.id, login |-> sent[i].resp.login,
      status |-> sent[i].resp.status, ua |-> HeaderGet(sent[i].header, UAHeader)]]

StepLog(r, err) ==
  [sent |-> log.sent \o Summary(r.w.sent), signs |-> log.signs + r.w.signs, err |-> err,
   ret |-> newTransportReturn(err, pc'),
   peak |-> IF r.w.peak > log.peak THEN r.w.peak ELSE log.peak]

\* A NewTransport that checks the installation whatever the options.
needsInstallationAlways(tr) == TRUE

\* NewTransport: whether the installation is checked and the bot user fetched.
needsInstallation(tr) == tr.owner # <<>> \/ tr.installID # 0

\* A checkApp with one message for every answer that is not 200.
checkAppErrorFlat(rerr, resp) ==
  IF rerr # NilErr THEN <<"failed to verify key for app id">> \o rerr
  ELSE IF resp.status # 200
  THEN <<"failed to verify key for app id", ToString(resp.status)>>
  ELSE IF resp.kind = "notjson" THEN Errorf("failed to unmarshal response")
  ELSE NilErr

\* checkApp: nil or its error, from the error of client.Do and the answer.
checkAppError(rerr, resp) ==
  IF rerr # NilErr THEN <<"failed to verify key for app id">> \o rerr
  ELSE IF resp.status \in {401, 403}
  THEN <<"invalid app id or credentials", ToString(resp.status)>>
  ELSE IF resp.status # 200
  THEN <<"failed to verify key for app id", ToString(resp.status)>>
  ELSE IF resp.kind = "notjson" THEN Errorf("failed to unmarshal response")
  ELSE NilErr

\* NewTransport: t.checkApp, then the choice of the next step.
CheckApp ==
  /\ pc = "checkApp"
  /\ \E in \in Inputs(now), resp \in AppResponses \cup {NoResp} :
       LET w0 == World(<<NoHeader>>, jwt, token, now)
           req == Request(TRUE, "GET", t.baseURL.Host, <<"app">>, 1)
       IN \E r \in {RoundTrip(w0, t, req, in, resp)} :
       LET err == checkAppError(r.err, resp)
       IN
       /\ Consumed(r, in, resp)
       /\ StepDone("checkApp", r, in)
       /\ IF err # NilErr
          THEN /\ pc' = "failed"
               /\ t' = t
               /\ log' = StepLog(r, <<"githubapp: failed to verify app">> \o err)
          ELSE IF resp.kind = "noslug"
          THEN /\ pc' = "panic"
               /\ t' = t
               /\ log' = StepLog(r, NilErr)
          ELSE /\ t' = [t EXCEPT !.appSlug = resp.login]
               /\ pc' = IF needsInstallation(t) THEN "checkInstallation" ELSE "ready"
               /\ log' = StepLog(r, NilErr)

\* The URL of the installation probe.
InstallationPath(tr) ==
  IF tr.installID # 0
  THEN <<"app", "installations", ToString(tr.installID)>>
  ELSE <<"users">> \o tr.owner \o <<"installation">>

\* A checkInstallation that takes the configured installation id as it is.
installIDMismatchNever(tr, id) == FALSE

\* checkInstallation, "Save installation ID": whether the configured
\* installation id disagrees with the id of the installation record.
installIDMismatch(tr, id) == tr.installID # 0 /\ tr.installID # id

\* A checkInstallation that does not look at suspended_at.
installationSuspendedNever(resp) == FALSE

\* checkInstallation, "Check if installation is suspended": SuspendedAt is
\* not nil and is before time.Now().
installationSuspended(resp) == resp.susp = "past"

\* NewTransport: t.checkInstallation up to the mint of the first token.
CheckInstallation ==
  /\ pc = "checkInstallation"
  /\ \E in \in Inputs(now), resp \in InstallationResponses \cup {NoResp} :
       LET w0 == World(<<NoHeader>>, jwt, token, now)
           req == Request(TRUE, "GET", t.baseURL.Host, InstallationPath(t), 1)
       IN \E r \in {RoundTrip(w0, t, req, in, resp)} :
       LET permErr == checkInstallationPermissions(t, resp.perms)
           err == IF r.err # NilErr THEN <<"error fetching installation">> \o r.err
                  ELSE IF resp.status # 200 THEN Errorf(ToString(resp.status))
                  ELSE IF resp.kind = "notjson"
                  THEN Errorf("failed to unmarshal response body")
                  ELSE IF installationSuspended(resp) /\ resp.kind # "noid"
                  THEN Errorf("installation is not active")
                  ELSE IF permErr # NilErr THEN permErr
                  ELSE IF resp.kind # "noid" /\ installIDMismatch(t, resp.id)
                  THEN Errorf("configured installation id does not match actual value")
                  ELSE NilErr
       IN
       /\ Consumed(r, in, resp)
       /\ StepDone("checkInstallation", r, in)
       /\ IF err # NilErr
          THEN /\ pc' = "failed"
               /\ t' = t
               /\ log' = StepLog(r, <<"githubapp: failed to verify installation">> \o err)
          ELSE IF resp.kind = "noid"
          THEN /\ pc' = "panic"
               /\ t' = t
               /\ log' = StepLog(r, NilErr)
          ELSE /\ pc' = "primer"
               /\ t' = [t EXCEPT !.installID = IF @ = 0 THEN resp.id ELSE @,
                                 !.owner = IF @ = <<>> THEN resp.login ELSE @]
               /\ log' = StepLog(r, NilErr)

\* NewTransport: the end of t.checkInstallation, the mint of the first token.
Primer ==
  /\ pc = "primer"
  /\ \E in \in Inputs(now) :
       \E r \in {installationAuthzHeaderValue(World(<<>>, jwt, token, now), t, in)} :
       /\ Consumed(r, in, NoResp)
       /\ StepDone("primer", r, in)
       /\ t' = t
       /\ pc' = IF r.panic THEN "panic" ELSE IF r.err # NilErr THEN "failed" ELSE "fetchBot"
       /\ log' = StepLog(r, IF r.err # NilErr
                            THEN <<"githubapp: failed to verify installation">> \o r.err
                            ELSE NilErr)

\* NewTransport: t.fetchBotUserID and the return of the Transport.
FetchBotUserID ==
  /\ pc = "fetchBot"
  /\ \E in \in Inputs(now), resp \in BotResponses \cup {NoResp} :
       LET w0 == World(<<NoHeader>>, jwt, token, now)
           req == Request(FALSE, "GET", t.baseURL.Host,
                          <<"users">> \o t.appSlug \o <<"[bot]">>, 1)
       IN \E r \in {RoundTrip(w0, t, req, in, resp)} :
       LET err == IF r.err # NilErr THEN <<"request failed">> \o r.err
                  ELSE IF resp.status # 200 THEN Errorf(ToString(resp.status))
                  ELSE IF resp.kind = "notjson" THEN Errorf("failed to unmarshal response")
                  ELSE IF resp.kind = "nologin"
                  THEN Errorf("missing user id or login in API response")
                  ELSE NilErr
       IN
       /\ Consumed(r, in, resp)
       /\ StepDone("fetchBot", r, in)
       /\ IF r.panic
          THEN /\ pc' = "panic"
               /\ t' = t
               /\ log' = StepLog(r, NilErr)
          ELSE IF err # NilErr
          THEN /\ pc' = "failed"
               /\ t' = t
               /\ log' = StepLog(r, <<"githubapp: failed to fetch bot user metadata">> \o err)
          ELSE /\ pc' = "ready"
               /\ t' = [t EXCEPT !.botUsername = resp.login,
                                 !.botEmail = <<ToString(resp.id), "+">> \o resp.login
                                              \o <<"@users.noreply.github.com">>]
               /\ log' = StepLog(r, NilErr)


\* ------------------------------------------------------ client operations
HdrAuthz == [x \in {AuthzHeader, "X-Custom"} |->
               IF x = AuthzHeader THEN << <<"Bearer ", "caller">>, <<"second">> >>
               ELSE << <<"x">> >>]
HdrAccept == [x \in {AcceptHeader} |-> << <<"text/plain">> >>]
HdrVersionUA == [x \in {VersionHeader, UAHeader} |->
                   IF x = VersionHeader THEN << <<"2021">> >> ELSE << <<"curl">> >>]
HdrAll == [x \in {AuthzHeader, AcceptHeader, VersionHeader, UAHeader} |->
             IF x = AuthzHeader THEN << <<"Bearer ", "caller">> >>
             ELSE IF x = AcceptHeader THEN << <<"text/plain">> >>
             ELSE IF x = VersionHeader THEN << <<"2021">> >>
             ELSE << <<"curl">> >>]

CallerHeaders == {NoHeader, HdrAuthz, HdrAccept, HdrVersionUA, HdrAll}
ReqHosts == {<<"a", "b">>, <<"A", "B">>, <<"a", "r">>}

\* A client calls t.RoundTrip(req), directly or through an http.Client.
ClientRoundTrip ==
  /\ pc = "ready"
  /\ ev = NoEv
  /\ \E h \in CallerHeaders, host \in ReqHosts, isNil \in BOOLEAN,
        in \in Inputs(now), resp \in ClientResponses \cup {NoResp} :
       LET w0 == World(<<h>>, jwt, token, now)
           req == IF isNil THEN NilRequest
                  ELSE Request(FALSE, "GET", host, <<"repos">>, 1)
       IN \E r \in {RoundTrip(w0, t, req, in, resp)} :
       /\ isNil => h = NoHeader /\ host = <<"a", "b">>
       /\ Consumed(r, in, resp)
       /\ jwt' = r.w.jwt
       /\ token' = r.w.token
       /\ heap' = r.w.heap
       /\ ev' = Ev("RoundTrip", req, h, r, in, <<>>, <<>>)
  /\ UNCHANGED <<pc, t, now, log, given, calls, held>>

\* A client calls t.JWT(ctx).
ClientJWT ==
  /\ pc = "ready"
  /\ ev = NoEv
  /\ \E in \in Inputs(now) :
       LET w0 == World(<<>>, jwt, token, now)
           j == TransportJWT(w0, t, in.sigOK)
           r == [w |-> j.w, jwt |-> j.jwt, err |-> j.err, panic |-> FALSE]
       IN
       /\ Consumed(r, in, NoResp)
       /\ jwt' = r.w.jwt
       /\ token' = r.w.token
       /\ heap' = r.w.heap
       /\ ev' = Ev("JWT", NilRequest, NoHeader, r, in, <<r.jwt>>, <<>>)
  /\ UNCHANGED <<pc, t, now, log, given, calls, held>>

\* A client calls t.InstallationToken(ctx).
ClientInstallationToken ==
  /\ pc = "ready"
  /\ ev = NoEv
  /\ \E in \in Inputs(now) :
       \E r \in {InstallationToken(World(<<>>, jwt, token, now), t, in)} :
       /\ Consumed(r, in, NoResp)
       /\ jwt' = r.w.jwt
       /\ token' = r.w.token
       /\ heap' = r.w.heap
       /\ ev' = Ev("InstallationToken", NilRequest, NoHeader, r, in, <<>>, <<r.token>>)
  /\ UNCHANGED <<pc, t, now, log, given, calls, held>>

\* NewJWT: nil or the error, the JWT, how often the signer was invoked.
NewJWT(appid, signer, n, sigOK) ==
  LET argErr == (IF signer.nil THEN Errorf("no signer provided") ELSE NilErr)
                \o (IF appid = 0 THEN Errorf("app id cannot be zero") ELSE NilErr)
  IN
  IF argErr # NilErr
  THEN [jwt |-> ZeroJWT, signs |-> 0, err |-> <<"githubapp(jwt): failed to mint JWT">> \o argErr]
  ELSE IF signer.key = "rsa"
  THEN IF signer.bits < MinRSABits
       THEN [jwt |-> ZeroJWT, signs |-> 0, err |-> Errorf("githubapp(jwt): rsa keys size < 2048 bits")]
       ELSE LET m == MintJWT(appid, n, sigOK) IN [jwt |-> m.jwt, signs |-> 1, err |-> m.err]
  ELSE [jwt |-> ZeroJWT, signs |-> 0, err |-> Errorf("githubapp(jwt): unsupported key type")]

\* A caller calls NewJWT(ctx, appid, signer).
CallNewJWT ==
  /\ pc = "new"
  /\ ev = NoEv
  /\ \E appid \in {0, 1}, signer \in Signers, sigOK \in BOOLEAN :
       LET m == NewJWT(appid, signer, now, sigOK)
           r == [w |-> [World(<<>>, jwt, token, now) EXCEPT !.signs = m.signs],
                 err |-> m.err, panic |-> FALSE]
       IN
       /\ m.signs = 0 => sigOK
       /\ ev' = [Ev("NewJWT", NilRequest, NoHeader, r, [sigOK |-> sigOK, exch |-> NoResp],
                    <<m.jwt>>, <<>>)
                 EXCEPT !.appid = appid, !.signer = signer]
  /\ UNCHANGED <<pc, t, now, jwt, token, heap, log, given, calls, held>>

\* Time passes (less than a tick, or more) while the program runs; the
\* record of the last call and its header maps are dropped, and the next
\* call of a client is recorded.
Tick ==
  /\ pc \notin {"failed", "panic"}
  /\ \E n \in Instants : n >= now /\ now' = n
  /\ ev' = NoEv
  /\ heap' = <<>>
  /\ UNCHANGED <<pc, t, jwt, token, log, given, calls, held>>

\* The record of a call of a single method: its arguments and its results.
Call(op, args, ret) == [NoEv EXCEPT !.op = op, !.args = args, !.ret = ret]

\* ---------------------------------------------------------------- webhook
ErrWebHookMethod == "githubapp(webhook): method not supported"
ErrWebHookContentType == "githubapp(webhook): unsupported content type"
ErrWebHookRequest == "githubapp(webhook): invalid request"
ErrWebhookSignature == "githubapp(webhook): HMAC-SHA256 signature is invalid"

SignatureSHA256Header == "X-Hub-Signature-256"
EventHeader == "X-GitHub-Event"
HookIDHeader == "X-GitHub-Hook-ID"
DeliveryHeader == "X-GitHub-Delivery"
InstallationTargetIDHeader == "X-GitHub-Hook-Installation-Target-ID"
InstallationTargetTypeHeader == "X-GitHub-Hook-Installation-Target-Type"
ContentTypeHeader == "Content-Type"

\* WebHook{}
ZeroWebHook ==
  [ID |-> <<>>, Event |-> <<>>, Payload |-> <<>>, DeliveryID |-> <<>>,
   Signature |-> <<>>, InstallationID |-> 0, InstallationType |-> <<>>]

\* The headers that VerifyWebHookRequest requires, in the order of the array.
requiredHeaders ==
  <<EventHeader, HookIDHeader, DeliveryHeader, InstallationTargetTypeHeader,
    InstallationTargetIDHeader, ContentTypeHeader, SignatureSHA256Header>>

\* A missingHeaders that finds every header present.
missingHeadersNone(h) == <<>>

\* The loop over requiredHeaders: those whose value is empty, in order.
missingHeaders(h) ==
  SelectSeq(requiredHeaders, LAMBDA item : HeaderGet(h, item) = <<>>)

\* The digits of encoding/hex: the encoder's table, and the capital letters
\* that the decoder accepts as well.
HexLower == <<"0", "1", "2", "3", "4", "5", "6", "7", "8", "9", "a", "b", "c", "d", "e", "f">>
HexUpper == <<"0", "1", "2", "3", "4", "5", "6", "7", "8", "9", "A", "B", "C", "D", "E", "F">>

\* The value of a hex digit, -1 for any other character.
fromHexChar(c) ==
  IF IndexOf(HexLower, c) # 0 THEN IndexOf(HexLower, c) - 1
  ELSE IF IndexOf(HexUpper, c) # 0 THEN IndexOf(HexUpper, c) - 1
  ELSE -1

\* hex.DecodeString: an error for a character that is not a hex digit and
\* for an odd length, else the bytes of the pairs of digits.
hexDecodeString(s) ==
  IF \E i \in 1..Len(s) : fromHexChar(s[i]) = -1
  THEN [bytes |-> <<>>, ok |-> FALSE]
  ELSE IF Len(s) % 2 = 1
  THEN [bytes |-> <<>>, ok |-> FALSE]
  ELSE [bytes |-> [i \in 1..(Len(s) \div 2) |->
                     16 * fromHexChar(s[2 * i - 1]) + fromHexChar(s[2 * i])],
        ok |-> TRUE]

\* strconv.ParseUint(s, 10, 64) on strings of at most a few characters:
\* an error for the empty string and for a character that is not a
\* decimal digit (a sign included).
RECURSIVE DecimalValue(_)
DecimalValue(s) ==
  IF s = <<>> THEN 0
  ELSE 10 * DecimalValue(SubSeq(s, 1, Len(s) - 1)) + fromHexChar(s[Len(s)])

ParseUint(s) ==
  IF s = <<>> \/ \E i \in 1..Len(s) : fromHexChar(s[i]) \notin 0..9
  THEN [v |-> 0, ok |-> FALSE]
  ELSE [v |-> DecimalValue(s), ok |-> TRUE]

\* HMAC-SHA256 as a keyed digest of two bytes: the digests of different
\* keys differ, and so do those of different messages.
ByteCode(c) ==
  CASE c = "h" -> 1 [] c = "i" -> 2 [] c = "k" -> 3 [] c = "y" -> 4 [] OTHER -> 5

RECURSIVE Mix(_, _)
Mix(h, s) ==
  IF s = <<>> THEN h ELSE Mix((7 * h + ByteCode(Head(s))) % 256, Tail(s))

HMACSHA256(key, data) == <<Mix(161, key), Mix(178, data)>>

\* strings.HasPrefix(signature, "sha256=") and strings.TrimPrefix.
SignaturePrefix == "sha256="
HasSignaturePrefix(signature) == signature # <<>> /\ signature[1] = SignaturePrefix

\* A hmacEqual that accepts every signature.
hmacEqualAlways(trusted, untrusted) == TRUE

\* hmac.Equal
hmacEqual(trusted, untrusted) == trusted = untrusted

\* A request of a server: the body is never nil, and reading it gives its
\* bytes or an error.
WebHookRequest(nil, method, hasHeader, header, data, readErr) ==
  [nil |-> nil, Method |-> method, hasHeader |-> hasHeader, Header |-> header,
   Body |-> [data |-> data, err |-> readErr]]

\* The result of VerifyWebHookRequest: the value and the error returned,
\* whether the body was read and how many digests were computed.
WebHookResult(w, err, read, hmacs) == [w |-> w, err |-> err, read |-> read, hmacs |-> hmacs]

WebHookError(kind, msg, read) == WebHookResult(ZeroWebHook, <<kind>> \o msg, read, 0)

\* VerifyWebHookRequest
VerifyWebHookRequest(secret, req) ==
  IF req.nil THEN WebHookError(ErrWebHookRequest, <<"request is nil">>, FALSE)
  ELSE IF ~EqualFold(req.Method, <<"P", "O", "S", "T">>)
  THEN WebHookError(ErrWebHookMethod, req.Method, FALSE)
  ELSE IF ~req.hasHeader
  THEN WebHookError(ErrWebHookRequest, <<"headers are nil">>, FALSE)
  ELSE IF Len(missingHeaders(req.Header)) > 0
  THEN WebHookError(ErrWebHookRequest,
                    <<"missing header(s)">> \o missingHeaders(req.Header), FALSE)
  ELSE IF HeaderGet(req.Header, ContentTypeHeader) # <<"application/json">>
  THEN WebHookError(ErrWebHookContentType, HeaderGet(req.Header, ContentTypeHeader), FALSE)
  ELSE IF ~ParseUint(HeaderGet(req.Header, InstallationTargetIDHeader)).ok
  THEN WebHookError(ErrWebHookRequest, <<"invalid header", InstallationTargetIDHeader>>, FALSE)
  ELSE IF ~HasSignaturePrefix(HeaderGet(req.Header, SignatureSHA256Header))
  THEN WebHookError(ErrWebHookRequest, <<"missing prefix sha256= from header">>, FALSE)
  ELSE IF ~hexDecodeString(Tail(HeaderGet(req.Header, SignatureSHA256Header))).ok
  THEN WebHookError(ErrWebHookRequest, <<"signature not hex encoded">>, FALSE)
  ELSE IF req.Body.err
  THEN WebHookError(ErrWebHookRequest, <<"failed to read request body">>, TRUE)
  ELSE IF hmacEqual(HMACSHA256(secret, req.Body.data),
                    hexDecodeString(Tail(HeaderGet(req.Header, SignatureSHA256Header))).bytes)
  THEN WebHookResult(
         [ID |-> HeaderGet(req.Header, HookIDHeader),
          DeliveryID |-> HeaderGet(req.Header, DeliveryHeader),
          Event |-> HeaderGet(req.Header, EventHeader),
          Signature |-> HeaderGet(req.Header, SignatureSHA256Header),
          InstallationID |-> ParseUint(HeaderGet(req.Header, InstallationTargetIDHeader)).v,
          InstallationType |-> HeaderGet(req.Header, InstallationTargetTypeHeader),
          Payload |-> req.Body.data],
         NilErr, TRUE, 1)
  ELSE WebHookResult(ZeroWebHook, <<ErrWebhookSignature>>, TRUE, 1)

\* hex.EncodeToString with the given table of digits.
hexEncode(bytes, digits) ==
  [i \in 1..(2 * Len(bytes)) |->
     IF i % 2 = 1 THEN digits[(bytes[(i + 1) \div 2] \div 16) + 1]
     ELSE digits[(bytes[i \div 2] % 16) + 1]]

\* The deliveries that are verified: secrets, bodies, signature headers
\* (the digest of any secret and body in either case, or malformed text,
\* behind the right or a wrong prefix) and the other headers, each present
\* or not.
WebHookSecrets == {<<"k">>, <<"k", "y">>}
WebHookBodies == {<<>>, <<"h", "i">>}
WebHookMethods == {<<"P", "O", "S", "T">>, <<"p", "o", "s", "t">>, <<"G", "E", "T">>}
SignatureTexts ==
  {hexEncode(HMACSHA256(k, d), digits) :
     k \in WebHookSecrets, d \in WebHookBodies, digits \in {HexLower, HexUpper}}
  \cup {<<>>, <<"0">>, <<"g", "0">>, <<"0", "0">>, <<"0", "g", "0", "0">>}
SignatureValues ==
  {<<>>} \cup {<<p>> \o x : p \in {SignaturePrefix, "sha1="}, x \in SignatureTexts}
ContentTypes == {<<>>, <<"application/json">>, <<"application/x-www-form-urlencoded">>}
TargetIDs == {<<>>, <<"4", "2">>, <<"x">>, <<"-", "1">>}
MetadataSets ==
  { {EventHeader, HookIDHeader, DeliveryHeader, InstallationTargetTypeHeader},
    {HookIDHeader, DeliveryHeader, InstallationTargetTypeHeader},
    {EventHeader, HookIDHeader},
    {} }

\* The header map of a delivery; a header with an empty value is not set.
WebHookHeader(meta, id, ct, sig) ==
  LET val(x) == IF x = InstallationTargetIDHeader THEN id
                ELSE IF x = ContentTypeHeader THEN ct
                ELSE IF x = SignatureSHA256Header THEN sig
                ELSE IF x = InstallationTargetTypeHeader THEN <<"repository">>
                ELSE <<x, "value">>
      keys == meta \cup {x \in {InstallationTargetIDHeader, ContentTypeHeader,
                                SignatureSHA256Header} : val(x) # <<>>}
  IN [x \in keys |-> <<val(x)>>]

WebHookRequestsOf(methods, metas, ids, cts, sigs) ==
  { WebHookRequest(FALSE, m, TRUE, WebHookHeader(meta, id, ct, sig), d, re) :
      m \in methods, meta \in metas, id \in ids, ct \in cts,
      sig \in sigs, d \in WebHookBodies, re \in BOOLEAN }

WebHookRequests ==
  WebHookRequestsOf(WebHookMethods, MetadataSets, TargetIDs, ContentTypes, SignatureValues)
  \cup { WebHookRequest(FALSE, m, FALSE, NoHeader, <<>>, FALSE) : m \in WebHookMethods }
  \cup { WebHookRequest(TRUE, <<>>, FALSE, NoHeader, <<>>, FALSE) }

\* The deliveries with a POST method and complete headers, and the nil request.
WebHookDeliveries ==
  WebHookRequestsOf({<<"P", "O", "S", "T">>},
                    {{EventHeader, HookIDHeader, DeliveryHeader, InstallationTargetTypeHeader}},
                    {<<"4", "2">>}, {<<"application/json">>}, SignatureValues)
  \cup { WebHookRequest(TRUE, <<>>, FALSE, NoHeader, <<>>, FALSE) }

\* A handler calls VerifyWebHookRequest(secret, req).
CallVerifyWebHookRequest(secrets, reqs) ==
  /\ pc = "new"
  /\ ev = NoEv
  /\ \E secret \in secrets, req \in reqs :
       \E r \in {VerifyWebHookRequest(secret, req)} :
         ev' = Call("VerifyWebHookRequest", <<secret, req>>, <<r.w, r.err, r.read, r.hmacs>>)
  /\ UNCHANGED <<pc, t, now, jwt, token, heap, log, given, calls, held>>

\* NewInstallationToken: the zero token and the error of NewTransport when
\* NewTransport fails, else what t.InstallationToken returns.
NewInstallationToken(constructErr, call) ==
  IF constructErr # NilErr THEN [token |-> ZeroToken, err |-> constructErr] ELSE call

\* The options applied one at a time: those that set the owner, the
\* installation id and the repositories, and one that sets neither.
ApplyRepoLists ==
  RepoLists \cup { << <<"r">>, <<"r">> >>, << <<"9">>, <<"0">> >>, << <<"A", "/", "B">> >>,
                   << <<"a", "/", "9">>, <<"b", "/", "0">>, <<"r">> >> }

ApplyPool ==
  ( { WithOwner(OwnerA), WithOwner(<<"B">>), WithOwner(<<"-">>),
      WithInstallationID(0), WithInstallationID(1), WithInstallationID(2),
      WithUserAgent(UACustom) }
    \cup { WithRepositories(l) : l \in ApplyRepoLists } ) \ {NilOption}

\* One iteration of the loop of NewTransport over opts: the closure of the
\* next option is applied to the Transport under construction.
NewTransportApply(pool) ==
  /\ pc = "new"
  /\ Len(given.applied) < MaxApplied
  /\ \E opt \in pool :
       \E tr \in {IF given.applied = <<>> THEN NewTransportValue(1) ELSE t} :
         \E r \in {apply(opt, tr)} :
           /\ t' = r.t
           /\ ev' = Call("apply", <<tr, opt>>, <<r.t, r.err>>)
           /\ given' = [given EXCEPT !.appid = 1,
                                     !.applied = Append(@, [opt |-> opt, err |-> r.err])]
  /\ UNCHANGED <<pc, now, jwt, token, heap, log, calls, held>>

\* The options whose closures are called on their own, and the Transports
\* they are called on: a new one, and one to which an option was applied.
OptionPool ==
  ( LeafPool
    \cup { WithPermissions(l) :
             l \in { << <<"a", ":", "read">>, <<"b", "=", "write">> >>,
                     << <<"a", ":", "read">>, <<"a", "=", "admin">> >>,
                     << <<"a", ":", "read">>, <<"b", ":", "none">> >>,
                     << <<"A", "_", "b", ":", "write">> >>,
                     << <<"a", "b", ":", "read">> >>,
                     << <<"a", "read">> >>, << <<"a", ":">> >>,
                     << <<"a", ":", "write", ":", "write">> >> } }
    \cup { WithRepositories(l) : l \in ApplyRepoLists } ) \ {NilOption}

ConfiguredTransports ==
  {NewTransportValue(1)} \cup {apply(o, NewTransportValue(1)).t : o \in OptionPool}

\* opt.apply(t) for one option and one Transport.
CallOption(pool, transports) ==
  /\ pc = "new"
  /\ ev = NoEv
  /\ given.applied = <<>>
  /\ \E opt \in pool, tr \in transports :
       \E r \in {apply(opt, tr)} :
         ev' = Call("option", <<tr, opt>>, <<r.t, r.err>>)
  /\ UNCHANGED <<pc, t, now, jwt, token, heap, log, given, calls, held>>

\* ------------------------------------------------------ specifications
Construction == CheckApp \/ CheckInstallation \/ Primer \/ FetchBotUserID

Next ==
  \/ NewTransportBegin({0, 1}, Signers, OptLists(SmallPool))
  \/ Construction
  \/ ClientRoundTrip
  \/ ClientJWT
  \/ ClientInstallationToken
  \/ CallNewJWT
  \/ CallVerifyWebHookRequest({<<"k">>}, WebHookDeliveries)
  \/ Tick

Spec == Init /\ [][Next]_vars

\* NewTransport with every kind of option; no client.
NextOptions ==
  \/ NewTransportBegin({0, 1}, {NilSigner, Signer("rsa", 2048)}, OptLists(BigPool))
  \/ Construction

SpecOptions == Init /\ [][NextOptions]_vars

\* ------------------------------------------------- calls of single methods
\* Scope maps: the requested scopes of a Transport (the levels that the
\* options can leave in t.scopes, the empty level among them) and the
\* permissions of an installation record.
ScopeB == <<"b">>
RequestedLevels == Levels \cup {""}
GrantLevels == Levels \cup {"none"}
ScopeMaps(levels) == UNION { [d -> levels] : d \in SUBSET {ScopeA, ScopeB} }

\* t.checkInstallationPermissions on a Transport with scopes R, called with
\* the permissions G1 and again with the permissions G2.
CallCheckPermissions ==
  /\ pc = "new"
  /\ ev = NoEv
  /\ \E R \in ScopeMaps(RequestedLevels), G1, G2 \in ScopeMaps(GrantLevels) :
       LET tr == [NewTransportValue(1) EXCEPT !.scopes = R]
       IN ev' = Call("checkInstallationPermissions", <<R, G1, G2>>,
                     <<checkInstallationPermissions(tr, G1),
                       checkInstallationPermissions(tr, G2)>>)
  /\ UNCHANGED <<pc, t, now, jwt, token, heap, log, given, calls, held>>

\* --------------------------------- concurrent calls of InstallationToken
\* The steps of one call of t.InstallationToken(ctx) between which other
\* goroutines can run: the Load of the JWT slot in t.JWT, the mint, the Store,
\* and the exchange with its answer.  The token slot is not read or written.

\* t.jwt.Load() and bearer.IsValid() in t.JWT, reached through t.RoundTrip.
TokenCallLoad ==
  /\ pc = "ready"
  /\ t.installID # 0
  /\ \E c \in CallIds :
       /\ calls[c].pc = "idle"
       /\ calls' = [calls EXCEPT ![c] =
                      IF jwt # <<>> /\ JWTIsValid(jwt[1], now)
                      THEN [@ EXCEPT !.pc = "send", !.jwt = jwt[1]]
                      ELSE [@ EXCEPT !.pc = "mint"]]
  /\ UNCHANGED <<pc, t, now, jwt, token, heap, ev, log, given, held>>

\* t.minter.MintJWT(ctx, t.appID, time.Now()) in t.JWT.
TokenCallMint ==
  /\ \E c \in CallIds, sigOK \in BOOLEAN :
       /\ calls[c].pc = "mint"
       /\ \E m \in {MintJWT(t.appID, now, sigOK)} :
            calls' = [calls EXCEPT ![c] =
                        IF m.err # NilErr
                        THEN [@ EXCEPT !.pc = "done", !.minted = TRUE,
                                       !.err = <<"githubapp(token): failed to get installation token",
                                                 "githubapp: failed to mint JWT">> \o m.err]
                        ELSE [@ EXCEPT !.pc = "store", !.minted = TRUE,
                                       !.jwt = [m.jwt EXCEPT !.AppName = t.appSlug]]]
  /\ UNCHANGED <<pc, t, now, jwt, token, heap, ev, log, given, held>>

\* t.jwt.Store(bearer) in t.JWT.
TokenCallStore ==
  /\ \E c \in CallIds :
       /\ calls[c].pc = "store"
       /\ jwt' = <<calls[c].jwt>>
       /\ calls' = [calls EXCEPT ![c].pc = "send"]
  /\ UNCHANGED <<pc, t, now, token, heap, ev, log, given, held>>

\* The answers to the exchanges of concurrent calls: two tokens, a refusal,
\* a network error.
ConcurrentAnswers(n) ==
  { a \in ExchResponses(n) :
      \/ a.neterr
      \/ a.status = 403
      \/ a.status = 201 /\ a.kind = "ok" /\ a.tok # <<>> }

\* t.next.RoundTrip(clone) with the call's JWT, and what InstallationToken
\* does with the answer.
TokenCallExchange ==
  /\ \E c \in CallIds, a \in ConcurrentAnswers(now) :
       /\ calls[c].pc = "send"
       /\ \E x \in {exchangeResult(t, a)} :
            calls' = [calls EXCEPT ![c] =
                        [@ EXCEPT !.pc = "done", !.jwt = ZeroJWT, !.resp = a,
                                  !.token = IF a.neterr THEN ZeroToken ELSE x.token,
                                  !.err = IF a.neterr
                                          THEN <<"githubapp(token): failed to get installation token",
                                                 "network error">>
                                          ELSE x.err]]
  /\ UNCHANGED <<pc, t, now, jwt, token, heap, ev, log, given, held>>

\* NewTransport for installation 1, then concurrent calls on the Transport.
NextConcurrent ==
  \/ NewTransportBegin({1}, {Signer("rsa", 2048)}, {<<WithInstallationID(1)>>})
  \/ Construction
  \/ Tick
  \/ TokenCallLoad
  \/ TokenCallMint
  \/ TokenCallStore
  \/ TokenCallExchange

SpecConcurrent == Init /\ [][NextConcurrent]_vars

\* ------------------------------------------------------------ accessors
\* A ScopedPermissions that returns the map of the Transport itself.
ScopedPermissionsShared(tr) == [m |-> tr.scopes, shared |-> TRUE]

\* Transport.ScopedPermissions: maps.Clone(t.scopes), a map of its own.
ScopedPermissions(tr) == [m |-> tr.scopes, shared |-> FALSE]

\* A client calls t.ScopedPermissions() and assigns m[k] = v in the map it
\* got, when the map is not nil.  An assignment to a map that the Transport
\* shares is an assignment to t.scopes.
ClientScopedPermissions ==
  /\ pc = "ready"
  /\ ev = NoEv
  /\ \E k \in {ScopeA, <<"b">>}, v \in {"admin"} :
       \E r \in {ScopedPermissions(t)} :
         \E written \in {IF DOMAIN r.m = {} THEN r.m
                          ELSE [x \in (DOMAIN r.m) \cup {k} |-> IF x = k THEN v ELSE r.m[x]]} :
           /\ t' = IF r.shared THEN [t EXCEPT !.scopes = written] ELSE t
           /\ ev' = Call("ScopedPermissions", <<t.scopes, k, v>>, <<written>>)
  /\ UNCHANGED <<pc, now, jwt, token, heap, log, given, calls, held>>

\* NewTransport for installation 1 with or without a requested scope, then
\* the calls of a client, the accessor among them.
NextAccessors ==
  \/ NewTransportBegin({1}, {Signer("rsa", 2048)},
                       {<<WithInstallationID(1)>>,
                        <<WithInstallationID(1), WithPermissions(<<PermRead>>)>>})
  \/ Construction
  \/ ClientRoundTrip
  \/ ClientJWT
  \/ ClientInstallationToken
  \/ ClientScopedPermissions
  \/ Tick

SpecAccessors == Init /\ [][NextAccessors]_vars

\* ------------------------------------------------ concurrent calls of JWT
\* The steps of one call of t.JWT(ctx) between which other goroutines can
\* run: the Load of the slot with IsValid, the mint, and the Store.

\* A Store that leaves a slot that holds a JWT as it is.
storeJWTKeep(slot, bearer) == IF slot = <<>> THEN <<bearer>> ELSE slot

\* t.jwt.Store(bearer): the slot after the Store.
storeJWT(slot, bearer) == <<bearer>>

\* v := t.jwt.Load() and bearer.IsValid(): the call returns the JWT it
\* loaded, or goes on to mint one.
JWTCallLoad ==
  /\ pc = "ready"
  /\ \E c \in CallIds :
       /\ calls[c].pc = "idle"
       /\ calls' = [calls EXCEPT ![c] =
                      IF jwt # <<>> /\ JWTIsValid(jwt[1], now)
                      THEN [@ EXCEPT !.pc = "returned", !.jwt = jwt[1],
                                     !.seen = jwt, !.at = now]
                      ELSE [@ EXCEPT !.pc = "jwtMint", !.seen = jwt, !.at = now]]
  /\ UNCHANGED <<pc, t, now, jwt, token, heap, ev, log, given, held>>

\* t.minter.MintJWT(ctx, t.appID, time.Now()), the return of its error, or
\* bearer.AppName = t.appSlug.
JWTCallMint ==
  /\ \E c \in CallIds, sigOK \in BOOLEAN :
       /\ calls[c].pc = "jwtMint"
       /\ \E m \in {MintJWT(t.appID, now, sigOK)} :
            calls' = [calls EXCEPT ![c] =
                        IF m.err # NilErr
                        THEN [@ EXCEPT !.pc = "returned", !.minted = TRUE,
                                       !.err = <<"githubapp: failed to mint JWT">> \o m.err]
                        ELSE [@ EXCEPT !.pc = "jwtStore", !.minted = TRUE,
                                       !.jwt = [m.jwt EXCEPT !.AppName = t.appSlug]]]
  /\ UNCHANGED <<pc, t, now, jwt, token, heap, ev, log, given, held>>

\* t.jwt.Store(bearer) and the return of bearer.
JWTCallStore ==
  /\ \E c \in CallIds :
       /\ calls[c].pc = "jwtStore"
       /\ jwt' = storeJWT(jwt, calls[c].jwt)
       /\ calls' = [calls EXCEPT ![c] =
                      [@ EXCEPT !.pc = "returned",
                                !.order = 1 + Cardinality({d \in CallIds : calls[d].order > 0})]]
  /\ UNCHANGED <<pc, t, now, token, heap, ev, log, given, held>>

\* NewTransport for installation 1, then concurrent calls of t.JWT.
NextJWT ==
  \/ NewTransportBegin({1}, {Signer("rsa", 2048)}, {<<WithInstallationID(1)>>})
  \/ Construction
  \/ Tick
  \/ JWTCallLoad
  \/ JWTCallMint
  \/ JWTCallStore

SpecJWT == Init /\ [][NextJWT]_vars

\* ------------------------------------------ a caller's InstallationToken
\* The tokens a caller holds: as Transport.InstallationToken returns them
\* and as a caller builds them, Server being the string of the base URL.
TokenStrings == {<<>>, <<"ghs", "1">>}
TokenExpiries == {ZeroTime, StartInstant + Minute, StartInstant + Minute + 1, 200 * Second}
TokenServers ==
  { <<>>, EndpointCustom, <<"ftp", "://", "a">>, <<"https", "://", "a", "?", "q">>,
    <<"https", "://", "a", "#", "f">>, <<"https", "://", "%">> }
HeldTokens ==
  { [ZeroToken EXCEPT !.Token = tk, !.Exp = e, !.Server = sv, !.UserAgent = ua] :
      tk \in TokenStrings, e \in TokenExpiries, sv \in TokenServers, ua \in {<<>>, UACustom} }

\* Answers to DELETE /installation/token.
RevokeResponses ==
  { Resp(FALSE, st, "ok", 0, <<>>, NoScopes, "no", <<>>, ZeroTime) : st \in {204, 200, 401, 404} }
  \cup { Resp(TRUE, 0, "none", 0, <<>>, NoScopes, "no", <<>>, ZeroTime) }

InitToken ==
  /\ pc = "new"
  /\ t = NewTransportValue(0)
  /\ now = StartInstant
  /\ jwt = <<>>
  /\ token = <<>>
  /\ heap = <<>>
  /\ ev = NoEv
  /\ log = [sent |-> <<>>, signs |-> 0, err |-> NilErr, ret |-> "none", peak |-> 0]
  /\ given = [appid |-> 0, signer |-> NilSigner, leafErrs |-> <<>>, install |-> FALSE,
              installID |-> 0, owner |-> <<>>, owners |-> {}, applied |-> <<>>]
  /\ calls = [c \in CallIds |-> IdleCall]
  /\ \E tok \in HeldTokens : held = [tok |-> tok, revoked |-> <<>>]

\* A caller calls token.Revoke(ctx).  The clock advances while the request
\* is out.  An answer and a later time are drawn only when a request is
\* issued.
CallRevoke ==
  /\ ev = NoEv
  /\ \E a \in RevokeResponses \cup {NoResp}, n2 \in Instants :
       /\ n2 >= now
       /\ \E r \in {revoke(held.tok, now, a, n2)} :
            /\ r.sent = <<>> <=> a = NoResp
            /\ r.sent = <<>> => n2 = now
            /\ held' = [tok |-> r.token,
                        revoked |-> IF r.err = NilErr THEN <<n2>> ELSE held.revoked]
            /\ now' = n2
            /\ ev' = Call("Revoke", <<held.tok, held.revoked, now, a>>, <<r.err, r.sent>>)
  /\ UNCHANGED <<pc, t, jwt, token, heap, log, given, calls>>

\* A caller calls token.IsValid().
CallTokenIsValid ==
  /\ ev = NoEv
  /\ ev' = Call("IsValid", <<held.tok, held.revoked, now>>, <<TokenIsValid(held.tok, now)>>)
  /\ UNCHANGED <<pc, t, now, jwt, token, heap, log, given, calls, held>>

NextToken ==
  \/ CallRevoke
  \/ CallTokenIsValid
  \/ Tick

SpecToken == InitToken /\ [][NextToken]_vars

\* JWT values around the instant n: issued before, at and after n, expiring
\* before, at and after n plus a minute.
JWTValues(n) ==
  { [ZeroJWT EXCEPT !.Token = tk, !.IssuedAt = iat, !.Exp = exp] :
      tk \in {<<>>, jwtHeader \o <<".", ".", "sig">>},
      iat \in {n - 30 * Second, n - 1, n, n + 1},
      exp \in {n - Second, n + Minute - Second, n + Minute - 1, n + Minute,
               n + Minute + 1, n + Minute + Second, n + 2 * Minute} }

\* A caller calls j.IsValid() on a JWT value.
CallJWTIsValid ==
  /\ pc = "new"
  /\ ev = NoEv
  /\ \E j \in JWTValues(now) : ev' = Call("JWT.IsValid", <<j, now>>, <<JWTIsValid(j, now)>>)
  /\ UNCHANGED <<pc, t, now, jwt, token, heap, log, given, calls, held>>

NextCalls ==
  \/ CallCheckPermissions
  \/ CallJWTIsValid

SpecCalls == Init /\ [][NextCalls]_vars


\* The verification of deliveries, called on its own.
NextWebHook == CallVerifyWebHookRequest(WebHookSecrets, WebHookRequests)

SpecWebHook == Init /\ [][NextWebHook]_vars


\* The closures of the options, applied one after the other.
NextApply ==
  \/ NewTransportApply(ApplyPool)
  \/ CallOption(OptionPool, ConfiguredTransports)

SpecApply == Init /\ [][NextApply]_vars


\* ------------------------------------------------------------ properties
\* The requests that reached the inner round tripper during the last call.
Forwarded == {ev.sent[i] : i \in 1..Len(ev.sent)}

\* The value of the Authorization header of a forwarded request.
Credential(e) == HeaderGet(e.header, AuthzHeader)

\* The parts of a string between its '.' separators.
FirstDot(s) == CHOOSE i \in 1..Len(s) : s[i] = "." /\ \A j \in 1..(i - 1) : s[j] # "."

RECURSIVE SplitDots(_)
SplitDots(s) ==
  IF \A i \in 1..Len(s) : s[i] # "."
  THEN <<s>>
  ELSE <<SubSeq(s, 1, FirstDot(s) - 1)>> \o SplitDots(SubSeq(s, FirstDot(s) + 1, Len(s)))

\* A compact-serialized JWT, as opposed to a token issued by the server.
IsJWTString(s) == Len(SplitDots(s)) = 3

\* The installation tokens the last call got hold of: those of the answers
\* to its token exchanges, and the one cached before it.
TokensAtHand ==
  {ev.sent[i].resp.tok : i \in {j \in 1..Len(ev.sent) : ev.sent[j].req.Method = "POST"}}
  \cup {ev.preToken[i].Token : i \in 1..Len(ev.preToken)}

AttachesJWT(e) ==
  /\ jwt # <<>>
  /\ IsJWTString(jwt[1].Token)
  /\ Credential(e) = <<"Bearer ">> \o jwt[1].Token

AttachesInstallationToken(e) ==
  /\ \E tok \in TokensAtHand : Credential(e) = <<"Bearer ">> \o tok
  /\ ~IsJWTString(Tail(Credential(e)))

\* C1: every request that RoundTrip forwards carries the installation
\* access token if and only if the installation id is non-zero and the
\* request context has no JWT marker, and the app JWT in every other case.
C1_CredentialSelection ==
  \A e \in Forwarded :
    IF t.installID # 0 /\ ~e.req.ctxJWT
    THEN AttachesInstallationToken(e) /\ ~AttachesJWT(e)
    ELSE AttachesJWT(e) /\ ~AttachesInstallationToken(e)

C1_Witness ==
  /\ ev.op = "RoundTrip"
  /\ t.installID # 0
  /\ Len(ev.sent) = 2
  /\ ev.sent[1].req.ctxJWT /\ AttachesJWT(ev.sent[1])
  /\ ~ev.sent[2].req.ctxJWT /\ AttachesInstallationToken(ev.sent[2])

\* C2: a request whose host differs, letter case aside, from the host of the
\* base URL is refused with the host error before anything is done: the
\* signer is not invoked, nothing reaches the inner round tripper, no header
\* map is allocated or changed and the slots keep their values; a host equal
\* up to letter case is not refused for its host.
HostError == Errorf("githubapp(RoundTrip): Host for round tripper does not match host for request")

C2_HostBinding ==
  (ev.op = "RoundTrip" /\ ~ev.req.nil) =>
    IF EqualFold(t.baseURL.Host, ev.req.Host)
    THEN ev.err # HostError
    ELSE /\ ev.err = HostError
         /\ ev.signs = 0
         /\ ev.sent = <<>>
         /\ heap = <<ev.before>>
         /\ jwt = ev.preJwt
         /\ token = ev.preToken

C2_Witness ==
  /\ ev.op = "RoundTrip"
  /\ ~ev.req.nil
  /\ ~EqualFold(t.baseURL.Host, ev.req.Host)
  /\ AuthzHeader \in DOMAIN ev.before
  /\ ev.err = HostError

\* The token exchanges of the last call that the server answered with a token.
Minted ==
  {i \in 1..Len(ev.sent) :
     /\ ev.sent[i].req.Method = "POST"
     /\ ~ev.sent[i].resp.neterr
     /\ ev.sent[i].resp.status = 201
     /\ ev.sent[i].resp.kind = "ok"}

\* The calls that get their credential from installationAuthzHeaderValue.
ThroughAuthzHeaderValue == {"primer", "fetchBot", "RoundTrip"}

\* C3: when installationAuthzHeaderValue mints an installation token, the
\* primer of the construction included, the token slot holds that token
\* after the call; and a call that finds a valid token in the slot issues no
\* token exchange and attaches the token of the slot.
C3_TokenStored ==
  ev.op \in ThroughAuthzHeaderValue =>
    /\ Minted # {} =>
         /\ token # <<>>
         /\ \E i \in Minted : token[1].Token = ev.sent[i].resp.tok
    /\ (ev.preToken # <<>> /\ TokenIsValid(ev.preToken[1], now)) =>
         /\ \A e \in Forwarded : e.req.Method # "POST"
         /\ \A e \in Forwarded :
              ~e.req.ctxJWT => Credential(e) = <<"Bearer ">> \o ev.preToken[1].Token

\* The validity of a JWT at instant n, as the specification states it: it has
\* a token, was issued before n and expires more than a minute after n.
StillGood(j, n) == j.Token # <<>> /\ j.IssuedAt < n /\ n + 60 * Second < j.Exp

\* C4: Transport.JWT returns the JWT of the slot, without invoking the
\* signer and leaving the slot as it is, exactly when that JWT is valid at
\* the time of the call; otherwise it invokes the signer once and, when the
\* signer succeeds, stores the new JWT in the slot and returns it, and the
\* JWT returned is valid; when the signer fails it returns the zero JWT
\* and the error and leaves the slot as it is.
C4_JWTCache ==
  ev.op = "JWT" =>
    IF ev.preJwt # <<>> /\ StillGood(ev.preJwt[1], now)
    THEN /\ ev.signs = 0
         /\ ev.err = NilErr
         /\ ev.retJwt = ev.preJwt
         /\ jwt = ev.preJwt
    ELSE /\ ev.signs = 1
         /\ IF ev.sigOK
            THEN /\ ev.err = NilErr
                 /\ jwt = ev.retJwt
                 /\ StillGood(ev.retJwt[1], now)
                 /\ ev.retJwt[1].IssuedAt = Truncate(now) - 30 * Second
                 /\ ev.retJwt[1].AppID = t.appID
                 /\ ev.retJwt[1].AppName = t.appSlug
            ELSE /\ ev.err # NilErr
                 /\ ev.retJwt = <<ZeroJWT>>
                 /\ jwt = ev.preJwt

C4_Witness ==
  /\ ev.op = "JWT"
  /\ ev.preJwt # <<>>
  /\ StillGood(ev.preJwt[1], now)
  /\ ev.preJwt[1].IssuedAt # Truncate(now) - 30 * Second
  /\ ev.signs = 0
  /\ ev.retJwt = ev.preJwt

\* The requests of the client that the last call forwarded (the requests
\* of a token exchange are the library's own).
ForwardedOfClient == {e \in Forwarded : e.req.Method = "GET"}

\* C5: after a call of RoundTrip, successful or failed, the header map of
\* the caller's request has the entries it had before the call, and it had
\* them when the inner round tripper ran; what the inner round tripper
\* received is another request, with another header map, whose other fields
\* are those of the caller's request.
C5_CallerRequestUntouched ==
  (ev.op = "RoundTrip" /\ ~ev.req.nil) =>
    /\ heap[ev.req.Header] = ev.before
    /\ \A e \in ForwardedOfClient :
         /\ e.orig = ev.before
         /\ e.req.Header # ev.req.Header
         /\ [e.req EXCEPT !.Header = ev.req.Header] = ev.req
         /\ heap[e.req.Header] = e.header

C5_Witness ==
  /\ ev.op = "RoundTrip"
  /\ AuthzHeader \in DOMAIN ev.before
  /\ ev.err = NilErr
  /\ \E e \in ForwardedOfClient : e.header # ev.before /\ heap[ev.req.Header] = ev.before

LibraryHeaders == {AcceptHeader, VersionHeader, UAHeader}

RejectedKey(signer) == ~signer.nil /\ (signer.key # "rsa" \/ signer.bits < 2048)

\* C8: with a signer whose key is not RSA or is RSA of less than 2048 bits,
\* NewTransport fails without invoking the signer, without any request and
\* with both slots empty, and NewJWT returns an error and the zero JWT
\* without invoking the signer.
C8_KeyRejected ==
  /\ (pc # "new" /\ RejectedKey(given.signer)) =>
       /\ pc = "failed"
       /\ log.err # NilErr
       /\ log.signs = 0
       /\ log.sent = <<>>
       /\ jwt = <<>>
       /\ token = <<>>
  /\ (ev.op = "NewJWT" /\ RejectedKey(ev.signer)) =>
       /\ ev.err # NilErr
       /\ ev.signs = 0
       /\ ev.sent = <<>>
       /\ ev.retJwt = <<ZeroJWT>>

C8_Witness ==
  /\ pc = "failed"
  /\ given.appid # 0
  /\ given.signer = Signer("rsa", 2047)
  /\ log.err = Errorf("githubapp: rsa keys size < 2048 bits")
  /\ log.signs = 0

\* C9: when the closure of an option given to NewTransport, directly or
\* inside Options(...) at any depth, returns an error, NewTransport fails
\* before any request, and the error it returns has the errors of all
\* these closures.
C9_OptionErrorsFail ==
  given.leafErrs # <<>> =>
    /\ pc = "failed"
    /\ log.sent = <<>>
    /\ \A i \in 1..Len(given.leafErrs) :
         \E k \in 1..Len(log.err) : log.err[k] = given.leafErrs[i]

\* C10: a Transport that NewTransport returned when none of WithOwner,
\* WithInstallationID and WithRepositories was given has installation id 0
\* and an empty token slot after every operation, has issued no token
\* exchange, attaches the JWT to every request it forwards, and its
\* InstallationToken returns an error and the zero token without invoking
\* the signer and without any request.
C10_AppOnly ==
  (pc = "ready" /\ ~given.install) =>
    /\ t.installID = 0
    /\ token = <<>>
    /\ \A i \in 1..Len(log.sent) : log.sent[i].Method # "POST"
    /\ \A e \in Forwarded : e.req.Method # "POST" /\ AttachesJWT(e)
    /\ ev.op = "InstallationToken" =>
         /\ ev.err = Errorf("githubapp: installation id is not configured")
         /\ ev.sent = <<>>
         /\ ev.signs = 0
         /\ ev.retTok = <<ZeroToken>>

C10_Witness ==
  /\ pc = "ready"
  /\ ~given.install
  /\ ev.op = "InstallationToken"
  /\ ev.err # NilErr
  /\ jwt # <<>>


\* ------------------------------------------------------------------- C11
\* NewTransport has returned a transport of an installation: the second
\* request of the construction was the installation probe, InstallationRecord
\* is what its answer carried.
InstallationResolved == pc = "ready" /\ Len(log.sent) >= 2
InstallationRecord == log.sent[2]

\* C11, as stated: a transport with a resolved installation has the id and
\* the account login of the installation record, and no transport is returned
\* when the caller's installation id or owner disagrees with the record.
C11_RecordAdopted ==
  InstallationResolved =>
    /\ t.installID = InstallationRecord.id
    /\ t.owner = InstallationRecord.login
    /\ given.installID # 0 => given.installID = InstallationRecord.id
    /\ given.owner # <<>> => given.owner = InstallationRecord.login

\* C11, amended: a transport with a resolved installation has the id of the
\* installation record, which is the caller's id when one was given; its
\* owner is the caller's owner when one was given, whatever the record's
\* login, and the record's login otherwise.
C11_Reconciled ==
  InstallationResolved =>
    /\ t.installID = InstallationRecord.id
    /\ given.installID # 0 => given.installID = InstallationRecord.id
    /\ t.owner = IF given.owner = <<>> THEN InstallationRecord.login ELSE given.owner

\* A transport is returned for an owner that is not the record's login.
C11_Witness ==
  /\ InstallationResolved
  /\ given.installID = 1
  /\ given.owner = OwnerA
  /\ InstallationRecord.login = OwnerB
  /\ t.owner = OwnerA
  /\ t.installID = 1


\* ------------------------------------------------------------------- C12
\* The order read < write < admin.
LevelRank(level) == CASE level = "read" -> 1 [] level = "write" -> 2 [] level = "admin" -> 3

\* Every requested scope has a level of the order, is granted, and is
\* granted at a level of the order that is at least the requested one.
Covers(G, R) ==
  \A sc \in DOMAIN R :
    /\ R[sc] \in Levels
    /\ sc \in DOMAIN G
    /\ G[sc] \in Levels
    /\ LevelRank(G[sc]) >= LevelRank(R[sc])

\* C12: checkInstallationPermissions of requested scopes R against a grant G
\* returns nil exactly when R is empty or G covers every scope of R at its
\* level or a higher one; in every other case it returns an error.
C12_ScopeReconciliation ==
  ev.op = "checkInstallationPermissions" =>
    (ev.ret[1] = NilErr <=> (DOMAIN ev.args[1] = {} \/ Covers(ev.args[2], ev.args[1])))

\* Two scopes are requested and granted, one of them at a higher level.
C12_Witness ==
  /\ ev.op = "checkInstallationPermissions"
  /\ ev.args[1] = (ScopeA :> "read") @@ (ScopeB :> "write")
  /\ ev.args[2] = (ScopeA :> "admin") @@ (ScopeB :> "write")
  /\ ev.ret[1] = NilErr

\* ------------------------------------------------------------------- C13
\* G1 is below G2: every scope of G1 is in G2 with an equal or higher level.
GrantLeq(G1, G2) ==
  \A sc \in DOMAIN G1 :
    /\ sc \in DOMAIN G2
    /\ \/ G2[sc] = G1[sc]
       \/ G1[sc] \in Levels /\ G2[sc] \in Levels /\ LevelRank(G2[sc]) >= LevelRank(G1[sc])

\* C13: when the grant G1 is below the grant G2 and the reconciliation of R
\* against G1 passes, the reconciliation of R against G2 passes.
C13_MonotoneInGrant ==
  (ev.op = "checkInstallationPermissions" /\ GrantLeq(ev.args[2], ev.args[3])
     /\ ev.ret[1] = NilErr)
  => ev.ret[2] = NilErr

\* A request passes against a grant and against a strictly larger one.
C13_Witness ==
  /\ ev.op = "checkInstallationPermissions"
  /\ ev.args[1] = (ScopeA :> "write")
  /\ ev.args[2] = (ScopeA :> "write")
  /\ ev.args[3] = (ScopeA :> "admin") @@ (ScopeB :> "read")
  /\ ev.ret = <<NilErr, NilErr>>


\* ------------------------------------------------------------------- C14
\* The answers to the token-exchange requests of the last call.
ExchangeAnswers == {e.resp : e \in {x \in Forwarded : x.req.Method = "POST"}}

Undecodable(a) ==
  ~a.neterr /\ a.status = 201 /\ (a.kind \in {"notjson", "noexp"} \/ a.tok = <<>>)

\* C15: for a 201 answer whose body is not JSON or lacks the token or the
\* expiry, InstallationToken returns an error and the zero InstallationToken,
\* and does not panic.
C15_DecodeFailure ==
  ev.op = "InstallationToken" =>
    \A a \in ExchangeAnswers :
      Undecodable(a) => (ev.err # NilErr /\ ~ev.panic /\ ev.retTok = <<ZeroToken>>)


\* ------------------------------------------------------------------- C16
\* The kinds of an error of NewTransport, told by the messages of its chain.
HasMessage(err, m) == \E k \in 1..Len(err) : err[k] = m
IsAppCredentials(err) == HasMessage(err, "invalid app id or credentials")
IsAppInstallation(err) == HasMessage(err, "githubapp: failed to verify installation")
IsAppVerification(err) == HasMessage(err, "githubapp: failed to verify app")

\* The answers to GET /app that the last step of NewTransport received.
AppAnswers ==
  IF ev.op = "checkApp" THEN {e.resp : e \in {x \in Forwarded : ~x.resp.neterr}} ELSE {}

TokenAnswer(a) == ~a.neterr /\ a.status = 201 /\ a.kind = "ok" /\ a.tok # <<>>

C18_RevokedStaysInvalid ==
  /\ held.revoked # <<>> =>
       /\ held.tok.Exp = held.revoked[1]
       /\ ~TokenIsValid(held.tok, now)
  /\ (ev.op = "IsValid" /\ ev.args[2] # <<>>) => ev.ret[1] = FALSE
  /\ (ev.op = "Revoke" /\ ev.args[2] # <<>>) => (ev.ret[1] # NilErr /\ ev.ret[2] = <<>>)

\* Revoke is called again, later, on a token that was revoked.
C18_Witness ==
  /\ ev.op = "Revoke"
  /\ ev.args[2] # <<>>
  /\ ev.args[3] > ev.args[2][1]
  /\ ev.ret[1] # NilErr

\* ------------------------------------------------------------------- C19
\* C19: Revoke on a token that is not valid issues no request and returns an
\* error; when the request fails or is not answered 204 Revoke returns an
\* error; the token is changed only when the answer is 204; and a request
\* that is issued is a DELETE whose Authorization is "Bearer " and the token.
C19_RevokeFrame ==
  ev.op = "Revoke" =>
    /\ ~TokenIsValid(ev.args[1], ev.args[3]) => (ev.ret[2] = <<>> /\ ev.ret[1] # NilErr)
    /\ \A k \in 1..Len(ev.ret[2]) :
         /\ ev.ret[2][k].Method = "DELETE"
         /\ ev.ret[2][k].header[AuthzHeader] = << <<"Bearer ">> \o ev.args[1].Token >>
    /\ (ev.args[4].neterr \/ ev.args[4].status # 204) =>
         (ev.ret[1] # NilErr /\ held.tok = ev.args[1])
    /\ held.tok # ev.args[1] =>
         /\ Len(ev.ret[2]) = 1
         /\ ev.args[4].status = 204
         /\ ev.ret[1] = NilErr
         /\ held.tok = [ev.args[1] EXCEPT !.Exp = now]
    /\ Len(ev.ret[2]) <= 1

\* A valid token, a DELETE with its bearer answered 401, the token unchanged.
C19_Witness ==
  /\ ev.op = "Revoke"
  /\ TokenIsValid(ev.args[1], ev.args[3])
  /\ Len(ev.ret[2]) = 1
  /\ ev.args[4].status = 401
  /\ ev.ret[1] # NilErr
  /\ held.tok = ev.args[1]


\* ------------------------------------------------------------------- C20
\* C20: JWT.IsValid returns true exactly when the token string is not empty,
\* issued_at is at or before now, and expires_at is later than now plus 60
\* seconds.
C20_JWTValidity ==
  ev.op = "JWT.IsValid" =>
    (ev.ret[1] <=> /\ ev.args[1].Token # <<>>
                   /\ ev.args[1].IssuedAt <= ev.args[2]
                   /\ ev.args[1].Exp > ev.args[2] + 60 * Second)


\* ------------------------------------------------------------------- C21
\* C21: InstallationToken.IsValid returns true exactly when the token string
\* is not empty and the expiry is the zero instant or later than now plus
\* 60 seconds.
C21_TokenValidity ==
  ev.op = "IsValid" =>
    (ev.ret[1] <=> /\ ev.args[1].Token # <<>>
                   /\ \/ ev.args[1].Exp = ZeroTime
                      \/ ev.args[1].Exp > ev.args[3] + 60 * Second)

\* IsValid is true for a token without expiry, and the call is made at a
\* time after the start.
C21_Witness ==
  /\ ev.op = "IsValid"
  /\ ev.args[1].Token # <<>>
  /\ ev.args[1].Exp = ZeroTime
  /\ ev.args[3] > StartInstant
  /\ ev.ret[1] = TRUE


\* ------------------------------------------------------------------- C22
\* The members of a JSON object given as name, value, name, value, ...
Members(part) == {<<part[2 * i - 1], part[2 * i]>> : i \in 1..(Len(part) \div 2)}

\* The JWT that the last call of NewJWT has minted.
NewJWTResult == ev.retJwt[1]

NewJWTMinted == ev.op = "NewJWT" /\ ev.err = NilErr

C23_HeaderMembers ==
  NewJWTMinted =>
    /\ Len(SplitDots(NewJWTResult.Token)) = 3
    /\ Members(SplitDots(NewJWTResult.Token)[1]) = {<<"alg", "RS256">>, <<"typ", "JWT">>}


\* ------------------------------------------------------------------- C24
\* The last call of VerifyWebHookRequest: its secret, its request and what
\* it returned.
Verified == ev.op = "VerifyWebHookRequest"
HookSecret == ev.args[1]
HookReq == ev.args[2]
HookValue == ev.ret[1]
HookErr == ev.ret[2]
HookBodyRead == ev.ret[3]
HookDigests == ev.ret[4]

\* The value of a header of the request, empty when it is not set.
HookHeader(k) ==
  IF k \in DOMAIN HookReq.Header /\ HookReq.Header[k] # <<>>
  THEN HookReq.Header[k][1] ELSE <<>>

\* The text of the signature header after its first element.
HookSignatureText ==
  IF HookHeader(SignatureSHA256Header) = <<>> THEN <<>>
  ELSE Tail(HookHeader(SignatureSHA256Header))

IsPost(m) ==
  /\ Len(m) = 4
  /\ m[1] \in {"P", "p"} /\ m[2] \in {"O", "o"} /\ m[3] \in {"S", "s"} /\ m[4] \in {"T", "t"}

IsDecimal(s) ==
  /\ s # <<>>
  /\ \A i \in 1..Len(s) : s[i] \in {"0", "1", "2", "3", "4", "5", "6", "7", "8", "9"}

IsHexText(s) ==
  /\ Len(s) % 2 = 0
  /\ \A i \in 1..Len(s) :
       s[i] \in {"0", "1", "2", "3", "4", "5", "6", "7", "8", "9",
                 "a", "b", "c", "d", "e", "f", "A", "B", "C", "D", "E", "F"}

\* The half bytes of a sequence of bytes, high half first.
Nibbles(bytes) ==
  [i \in 1..(2 * Len(bytes)) |->
     IF i % 2 = 1 THEN bytes[(i + 1) \div 2] \div 16 ELSE bytes[i \div 2] % 16]

\* The text is a hexadecimal spelling of the bytes.
SpellsBytes(text, bytes) ==
  /\ Len(text) = 2 * Len(bytes)
  /\ \A i \in 1..Len(text) :
       text[i] \in {HexLower[Nibbles(bytes)[i] + 1], HexUpper[Nibbles(bytes)[i] + 1]}

\* The preconditions of a verification in the order in which they are
\* checked, and the kind of error of each.
Preconditions ==
  << ~HookReq.nil,
     IsPost(HookReq.Method),
     HookReq.hasHeader,
     \A i \in 1..Len(requiredHeaders) : HookHeader(requiredHeaders[i]) # <<>>,
     HookHeader(ContentTypeHeader) = <<"application/json">>,
     IsDecimal(HookHeader(InstallationTargetIDHeader)),
     HookHeader(SignatureSHA256Header) # <<>>
       /\ Head(HookHeader(SignatureSHA256Header)) = "sha256=",
     IsHexText(HookSignatureText),
     ~HookReq.Body.err,
     SpellsBytes(HookSignatureText, HMACSHA256(HookSecret, HookReq.Body.data)) >>

PreconditionKinds ==
  << ErrWebHookRequest, ErrWebHookMethod, ErrWebHookRequest, ErrWebHookRequest,
     ErrWebHookContentType, ErrWebHookRequest, ErrWebHookRequest, ErrWebHookRequest,
     ErrWebHookRequest, ErrWebhookSignature >>

FirstFailing(i) == ~Preconditions[i] /\ \A j \in 1..(i - 1) : Preconditions[j]

HeadersPass == \A i \in 1..8 : Preconditions[i]

\* The bytes that the signature text spells are the HMAC-SHA256 of the body
\* under the secret.
SignatureMatches ==
  SpellsBytes(HookSignatureText, HMACSHA256(HookSecret, HookReq.Body.data))

\* C25: for every secret and every POST request that passes the header
\* preconditions, verification succeeds exactly when the decoded signature
\* bytes equal HMAC-SHA256(secret, body); on success the payload is the body
\* byte for byte and the signature is the raw header value; otherwise the
\* error is WebHookSignature.
C25_SignatureDecides ==
  (Verified /\ HeadersPass) =>
    /\ (HookErr = NilErr) <=> SignatureMatches
    /\ HookErr = NilErr =>
         /\ HookValue.Payload = HookReq.Body.data
         /\ HookValue.Signature = HookHeader(SignatureSHA256Header)
    /\ HookErr # NilErr => HookErr[1] = ErrWebhookSignature

\* C25 (amended): the same for the requests whose body is read without an
\* error; when reading the body fails the error is WebHookRequest.
C25_SignatureDecidesReadable ==
  (Verified /\ HeadersPass) =>
    IF HookReq.Body.err
    THEN HookErr # NilErr /\ HookErr[1] = ErrWebHookRequest
    ELSE /\ (HookErr = NilErr) <=> SignatureMatches
         /\ HookErr = NilErr =>
              /\ HookValue.Payload = HookReq.Body.data
              /\ HookValue.Signature = HookHeader(SignatureSHA256Header)
         /\ HookErr # NilErr => HookErr[1] = ErrWebhookSignature

\* A delivery with a body that is not empty was verified, and its payload
\* is the body.
C25_Witness ==
  /\ Verified
  /\ HeadersPass
  /\ HookErr = NilErr
  /\ HookValue.Payload = <<"h", "i">>
  /\ HookSecret = <<"k", "y">>

\* ------------------------------------------------------------------- C26
\* C26: if the part of the signature header after sha256= is not lowercase
\* hex decodable (it has a character outside 0-9a-f or an odd length), the
\* result is WebHookRequest, and neither is the body read nor an HMAC
\* computed.
C26_MalformedHex ==
  ( /\ Verified
    /\ \A i \in 1..7 : Preconditions[i]
    /\ \/ Len(HookSignatureText) % 2 = 1
       \/ \E i \in 1..Len(HookSignatureText) : IndexOf(HexLower, HookSignatureText[i]) = 0 )
  => /\ HookErr # NilErr
     /\ HookErr[1] = ErrWebHookRequest
     /\ ~HookBodyRead
     /\ HookDigests = 0


\* ------------------------------------------------------------------- C27
\* What NewInstallationToken returns at the end of a failed NewTransport or
\* after the call of t.InstallationToken that follows a successful one.
NewInstallationTokenReturned ==
  \/ pc = "failed"
  \/ pc = "ready" /\ ev.op = "InstallationToken" /\ ~ev.panic

NewInstallationTokenResult ==
  NewInstallationToken(IF pc = "failed" THEN log.err ELSE NilErr,
                       IF ev.op = "InstallationToken"
                       THEN [token |-> ev.retTok[1], err |-> ev.err]
                       ELSE [token |-> ZeroToken, err |-> NilErr])

\* C27: every public operation that returns a value and an error returns the
\* zero value when the error is not nil: NewTransport a nil Transport,
\* NewInstallationToken and InstallationToken the zero token, NewJWT the zero
\* JWT, VerifyWebHookRequest the zero WebHook.
C27_ZeroOnError ==
  /\ pc = "failed" => log.err # NilErr
  /\ log.err # NilErr => log.ret = "nil"
  /\ (NewInstallationTokenReturned /\ NewInstallationTokenResult.err # NilErr)
       => NewInstallationTokenResult.token = ZeroToken
  /\ (ev.op = "InstallationToken" /\ ev.err # NilErr) => ev.retTok = <<ZeroToken>>
  /\ (ev.op = "NewJWT" /\ ev.err # NilErr) => ev.retJwt = <<ZeroJWT>>
  /\ (Verified /\ HookErr # NilErr) => HookValue = ZeroWebHook

\* NewTransport has failed after the platform answered, and returned nil.
C27_Witness ==
  /\ pc = "failed"
  /\ Len(log.sent) >= 1
  /\ log.err # NilErr
  /\ log.ret = "nil"


\* ------------------------------------------------------------------- C28
\* The last application of an option: the Transport before it, the option,
\* the Transport after it and the error.
Applied == ev.op = "apply"
Before == ev.args[1]
AppliedOption == ev.args[2]
After == ev.ret[1]
ApplyErr == ev.ret[2]

\* The owners that the applied option gives.
OwnersGiven == ownersNamed(<<AppliedOption>>)

AllSucceeded == \A i \in 1..Len(given.applied) : given.applied[i].err = NilErr

FirstSlash(item) == CHOOSE i \in 1..Len(item) : item[i] = "/" /\ \A j \in 1..(i - 1) : item[j] # "/"

\* The name of a repository given as name or as owner/name.
RepoName(item) ==
  IF \E i \in 1..Len(item) : item[i] = "/"
  THEN SubSeq(ToLower(item), FirstSlash(item) + 1, Len(item))
  ELSE ToLower(item)

\* The names supplied by the WithRepositories options applied so far.
NamesSupplied ==
  UNION { {RepoName(given.applied[i].opt.ss[j]) : j \in 1..Len(given.applied[i].opt.ss)} :
            i \in {x \in 1..Len(given.applied) : given.applied[x].opt.k = "WithRepositories"} }

\* C29: after any sequence of successful WithRepositories applications the
\* repository list of the Transport is sorted ascending, has no duplicates
\* and is exactly the union of the names supplied by all the applications;
\* applying the same WithRepositories option twice gives the same list as
\* applying it once.
C29_RepositoriesUnion ==
  (Applied /\ AllSucceeded) =>
    /\ \A i \in 1..(Len(t.repos) - 1) : StrLess(t.repos[i], t.repos[i + 1])
    /\ \A i, j \in 1..Len(t.repos) : t.repos[i] = t.repos[j] => i = j
    /\ {t.repos[i] : i \in 1..Len(t.repos)} = NamesSupplied
    /\ ( /\ Len(given.applied) >= 2
         /\ AppliedOption.k = "WithRepositories"
         /\ given.applied[Len(given.applied) - 1].opt = AppliedOption )
       => After.repos = Before.repos

\* Two different WithRepositories options have succeeded one after the
\* other, and the list has names of both.
C29_Witness ==
  /\ Applied
  /\ AllSucceeded
  /\ Len(given.applied) >= 2
  /\ given.applied[1].opt.k = "WithRepositories"
  /\ given.applied[2].opt.k = "WithRepositories"
  /\ given.applied[1].opt # given.applied[2].opt
  /\ Len(t.repos) >= 3


\* ------------------------------------------------------------------- C30
\* NewTransport has got past the validation of its options.
PastValidation == pc \notin {"new", "failed"} /\ given.applied = <<>>

\* C30: for every list of options passed to NewTransport, in whatever
\* order, construction gets past the validation of the options only if the
\* owner-qualified entries of every WithRepositories option and the owner
\* given by WithOwner all name the same single owner; when two different
\* owners appear anywhere, construction fails.
C30_SingleOwner ==
  PastValidation => Cardinality(given.owners) <= 1


\* ------------------------------------------------------------------- C31
\* The last call of the closure of an option on its own: the Transport
\* before it, the option, the Transport after it and the error.
OptionCalled == ev.op = "option"
OptionBefore == ev.args[1]
OptionGiven == ev.args[2]
OptionAfter == ev.ret[1]
OptionErr == ev.ret[2]

\* A scope name: lower-case letters, with underscores inside.
IsScopeName(s) ==
  /\ Len(s) >= 1
  /\ s[1] \in {"a", "b", "r"}
  /\ s[Len(s)] \in {"a", "b", "r"}
  /\ \A i \in 1..Len(s) : s[i] \in {"a", "b", "r", "_"}

\* A permission of the form scope:level or scope=level, letters in either
\* case.
IsScopeLevel(s) ==
  /\ Len(s) >= 3
  /\ s[Len(s)] \in {"read", "write", "admin"}
  /\ s[Len(s) - 1] \in {":", "="}
  /\ IsScopeName(ToLower(SubSeq(s, 1, Len(s) - 2)))

\* C31: WithPermissions accepts a permission only when it has the form
\* scope:level or scope=level with level one of read, write, admin; after a
\* successful application the scope mapping of the Transport has one entry
\* per supplied scope, every key is a scope name and every value is one of
\* read, write, admin; any other permission (level none or another
\* separator included) makes the option fail.
C31_PermissionForm ==
  (OptionCalled /\ OptionGiven.k = "WithPermissions") =>
    /\ OptionErr = NilErr =>
         /\ \A i \in 1..Len(OptionGiven.ss) : IsScopeLevel(OptionGiven.ss[i])
         /\ DOMAIN OptionAfter.scopes =
              {ToLower(SubSeq(OptionGiven.ss[i], 1, Len(OptionGiven.ss[i]) - 2)) :
                 i \in 1..Len(OptionGiven.ss)}
         /\ \A k \in DOMAIN OptionAfter.scopes :
              IsScopeName(k) /\ OptionAfter.scopes[k] \in {"read", "write", "admin"}
    /\ (\E i \in 1..Len(OptionGiven.ss) : ~IsScopeLevel(OptionGiven.ss[i])) => OptionErr # NilErr


\* ------------------------------------------------------------------- C32
\* NewTransport has applied its options (the app id and the signer were
\* given).
OptionsApplied ==
  pc # "new" /\ given.applied = <<>> /\ given.appid # 0 /\ ~given.signer.nil

\* C32: bare repository names given to WithRepositories are accepted by
\* NewTransport when they are used together with WithOwner or with
\* WithInstallationID; the validation of the options rejects them for lack
\* of an owner only when neither of them is supplied.
C32_BareNamesWithInstallation ==
  OptionsApplied =>
    ( HasMessage(log.err, "owner not specified")
        => (given.installID = 0 /\ given.owner = <<>>) )

\* ------------------------------------------------------------------- C33
\* The token exchanges that the last call sent to the inner round tripper.
Exchanges == {i \in 1..Len(ev.sent) : ev.sent[i].req.Method = "POST"}

\* C33: every RoundTrip, of a client or of NewTransport itself, returns
\* after a bounded nesting.  RoundTrip is entered at most twice, once for
\* the caller's request and once for the token exchange; the nested call
\* carries the JWT marker in its context and the app's JWT as its
\* credential, and a call makes at most one token exchange.
C33_BoundedReentrancy ==
  /\ log.peak <= 2
  /\ \A i \in 1..Len(log.sent) : log.sent[i].Method = "POST" => log.sent[i].ctxJWT
  /\ ev.op = "RoundTrip" =>
    /\ ev.peak <= 2
    /\ Cardinality(Exchanges) <= 1
    /\ ev.peak = 2 => (t.installID # 0 /\ ~ev.req.ctxJWT)
    /\ \A i \in Exchanges :
         /\ ev.sent[i].req.ctxJWT
         /\ jwt # <<>>
         /\ HeaderGet(ev.sent[i].header, AuthzHeader) = AuthzHeaderValue(jwt[1].Token)

\* A RoundTrip that renewed the token: the exchange, then the caller's
\* request.
C33_Witness ==
  /\ ev.op = "RoundTrip"
  /\ ev.peak = 2
  /\ Len(ev.sent) = 2
  /\ Exchanges = {1}
  /\ ev.err = NilErr

\* ------------------------------------------------------------------- C34
\* The requests of NewTransport that reached the inner round tripper: the
\* installation probes and the bot-user fetches among them.
IsAppProbe(q) == q.Method = "GET" /\ q.ctxJWT /\ q.Path = <<"app">>
ProbesSent ==
  {i \in 1..Len(log.sent) :
     log.sent[i].Method = "GET" /\ log.sent[i].ctxJWT /\ log.sent[i].Path # <<"app">>}
BotFetchesSent ==
  {i \in 1..Len(log.sent) : log.sent[i].Method = "GET" /\ ~log.sent[i].ctxJWT}

\* The last step was the installation probe of NewTransport; its answer,
\* when it reached the inner round tripper.
Probed == ev.op = "checkInstallation" /\ pc # "checkInstallation"
ProbeAnswer == ev.sent[Len(ev.sent)].resp

\* The probe failed, or its record is one that NewTransport refuses.
ProbeRefused ==
  \/ ev.err # NilErr
  \/ ev.sent = <<>>
  \/ ProbeAnswer.neterr
  \/ ProbeAnswer.status # 200
  \/ ProbeAnswer.kind = "notjson"
  \/ ProbeAnswer.susp = "past"
  \/ (given.installID # 0 /\ ProbeAnswer.kind = "ok" /\ ProbeAnswer.id # given.installID)
  \/ ~Covers(ProbeAnswer.perms, t.scopes)

SigningFailed == ~ev.sigOK /\ ev.signs > 0

JWTReturned == {c \in CallIds : calls[c].pc = "returned" /\ calls[c].err = NilErr}
JWTSawInvalid ==
  {c \in CallIds :
     /\ calls[c].pc \in {"jwtMint", "jwtStore", "returned"}
     /\ (calls[c].seen = <<>> \/ calls[c].seen[1].Exp <= calls[c].at + Minute
         \/ calls[c].seen[1].IssuedAt >= calls[c].at)}
JWTMinted == {c \in CallIds : calls[c].pc \in {"jwtStore", "returned"} /\ calls[c].minted}
JWTStored == {c \in CallIds : calls[c].order > 0}

\* A JWT is whole: its text is the serialization of its own fields, and it
\* is of this app.
WholeJWT(j) ==
  /\ j.AppID = t.appID
  /\ j.Token = jwtHeader \o <<".">> \o jwtPayload(j.AppID, j.IssuedAt, j.Exp) \o <<".", "sig">>
  /\ j.Exp = j.IssuedAt + 2 * Minute + 30 * Second

\* C36: under every interleaving of the calls of t.JWT, a call that has
\* returned without error returns a whole JWT, which it loaded from the
\* slot and found valid or which it minted itself; once all calls have
\* returned, the slot holds the JWT of the last Store; and the calls that
\* minted are calls that found no valid JWT in the slot.
C36_ConcurrentJWT ==
  /\ \A c \in JWTReturned :
       /\ WholeJWT(calls[c].jwt)
       /\ \/ /\ ~calls[c].minted
             /\ calls[c].seen = <<calls[c].jwt>>
             /\ c \notin JWTSawInvalid
          \/ /\ calls[c].minted
             /\ calls[c].jwt.AppName = t.appSlug
             /\ calls[c].jwt.IssuedAt >= Truncate(calls[c].at) - 30 * Second
  /\ \A c \in JWTStored :
       calls[c].order = Cardinality(JWTStored) => jwt = <<calls[c].jwt>>
  /\ JWTMinted \subseteq JWTSawInvalid
  /\ Cardinality(JWTMinted) <= Cardinality(JWTSawInvalid)

\* Two calls overlapped: both found the slot invalid, both minted and both
\* stored.
C36_Witness ==
  /\ Cardinality(JWTStored) >= 2
  /\ JWTReturned = CallIds

\* ------------------------------------------------------------------- C37
\* What NewTransport configured: the app id, the app name, the owner, the
\* installation id, the repositories, the scopes, and the bot's username
\* and e-mail.
Configuration(tr) ==
  <<tr.appID, tr.appSlug, tr.owner, tr.installID, tr.repos, tr.scopes,
    tr.botUsername, tr.botEmail>>

ConfigurationKept == Configuration(t)' = Configuration(t) /\ pc' = pc

\* C37: once NewTransport has returned the Transport, no call of RoundTrip,
\* JWT, InstallationToken or ScopedPermissions changes its configuration,
\* and an assignment to the map that ScopedPermissions returned does not
\* change the scopes of the Transport.
C37_ConfigurationFrozen == [][pc = "ready" => ConfigurationKept]_vars

\* A client has assigned to the map that ScopedPermissions returned, which
\* now differs from the scopes of the Transport.
C37_Witness ==
  /\ pc = "ready"
  /\ ev.op = "ScopedPermissions"
  /\ ev.ret[1] # ev.args[1]
  /\ t.scopes = ev.args[1]
  /\ jwt # <<>>

\* ------------------------------------------------------------------- C38
\* C38: every request of NewTransport that reaches the inner round tripper
\* (GET /app, the installation probe, the token exchange, the bot-user
\* fetch) and every later token exchange carries the User-Agent of the
\* Transport, which is the configured one or the library's default.
C38_UserAgent ==
  /\ \A i \in 1..Len(log.sent) :
       log.sent[i].ua = t.ua /\ t.ua \in {UACustom, UAHeaderValue}
  /\ \A i \in Exchanges :
       /\ HeaderGet(ev.sent[i].header, UAHeader) = t.ua
       /\ t.ua \in {UACustom, UAHeaderValue}

\* ------------------------------------------------------------------- C39
\* C39: an option whose application returns an error leaves the Transport
\* as it was before: a failing WithEndpoint, WithOwner, WithInstallationID
\* or WithPermissions leaves its field, and a failing WithRepositories
\* leaves the repositories and the owner.
C39_FailureKeepsConfiguration ==
  (OptionCalled /\ OptionErr # NilErr) => OptionAfter = OptionBefore

\* ------------------------------------------------------------------- C40
\* C40: every JWT that Transport.JWT returns once NewTransport has
\* succeeded, read from the slot or minted by the call, has the app id that
\* AppID() returns and the app name that AppName() returns.
C40_JWTNamesApp ==
  (ev.op = "JWT" /\ ev.err = NilErr) =>
    /\ ev.retJwt[1].AppID = t.appID
    /\ ev.retJwt[1].AppName = t.appSlug

====
